---- MODULE Spec2Model ----
(***************************************************************************)
(* Helios neural field: bounded-degree bond graph (core/network.py),      *)
(* energy propagation engine (core/rewards.py) and energy ledger          *)
(* (core/energy_exchange.py).                                             *)
(*                                                                         *)
(* Node ids are modelled as the integers 1..MaxNodes; their order stands  *)
(* for the lexicographic order of helios_id strings.  Time is counted in  *)
(* whole hours.  Propagation quantities are Decimals with 8 fractional    *)
(* digits; they are modelled as pairs <<whole, frac>> with frac counted   *)
(* in units of 1e-8 (see the Q* operators).                                *)
(***************************************************************************)
EXTENDS Integers, Sequences, FiniteSets, TLC

VARIABLES
    members,      \* set of registered helios_id (rows of table members)
    referrer_id,  \* Member.referrer_id, None when absent
    bond_count,   \* Member.bond_count
    node_state,   \* Member.node_state
    bonds,        \* table bonds: sequence of rows, Bond.id = index
    now,          \* datetime.now(timezone.utc), in hours
    txns,         \* number of Transaction rows per member_id (activity window)
    rewards,      \* table rewards: sequence of Reward rows
    events,       \* table energy_events: sequence of EnergyEvent rows
    result,       \* what the last public operation returned or raised
    calls,        \* requests in flight: per worker, its position and its locals
    traversal     \* a traversal in flight: its position, queue and visited map

vars == <<members, referrer_id, bond_count, node_state, bonds, now, txns,
          rewards, events, result, calls, traversal>>

\* ---------------------------------------------------------------- bounds
MaxNodes == 3
PropNodes == 3
MaxRows == 2
CapNodes == 7
MaxTxns == 3
LedgerNodes == 2
MaxRewards == 5
MaxEvents == 5

PathNodes == 4
PathRows == 3

WalkNodes == 3
WalkRows == 3

TxnRewards == 9

JoinNodes == 3

ReachNodes == 3
SnapNodes == 3
SnapRows == 3
ReachRows == 3

Nodes == 1..MaxNodes
CapIds == 1..CapNodes
AllIds == 1..(MaxNodes + CapNodes + PropNodes + LedgerNodes + PathNodes + WalkNodes)
Hub == 3
None == 0
Instants == {0, 1, 24, 25}
Workers == {1, 2}
Idle == [at |-> "idle"]

\* ------------------------------------------------------ program constants
FIELD_MAX_BONDS == 5
FIELD_COOLDOWN_HOURS == 24
FIELD_ACTIVITY_WINDOW_DAYS == 30
PROPAGATION_MAX_HOPS == 15
PROPAGATION_DECAY_BASE == 2
ACKNOWLEDGEMENT_AMOUNT == 10
SETTLEMENT_MIN_ACTIVITY_SCORE == 10
ABSORPTION_STABILITY_PERCENT == 40
ABSORPTION_LIQUIDITY_PERCENT == 25
ABSORPTION_INTELLIGENCE_PERCENT == 20
ABSORPTION_COMPLIANCE_PERCENT == 15
ENTRY_FEE_USD == 100
ENERGY_PROPAGATION_PERCENT == 45
ENERGY_LIQUIDITY_PERCENT == 20
ENERGY_TREASURY_PERCENT == 15
ENERGY_INFRASTRUCTURE_PERCENT == 10
ENERGY_BUFFER_PERCENT == 10
CERTIFICATE_CANCEL_FRICTION_PERCENT == 2
CERTIFICATE_MIN_ENERGY_HE == 10
CERTIFICATE_REDEMPTION_TYPES == {"GOLD", "STABLECOIN"}

BOND_STATE_ACTIVE == "active"
BOND_STATE_INACTIVE == "inactive"

\* ------------------------------------------------------------ Node registry
\* Member.update_node_state: the new node_state given the bond count and the
\* state held before the call.
update_node_state(bc, st) ==
    IF bc >= 5 THEN "stable"
    ELSE IF bc >= 3 THEN "propagating"
    ELSE IF bc >= 1 THEN "connected"
    ELSE st

\* HeliosIdentity.create_id: a new member row, status "active", column
\* defaults bond_count 0 and node_state "instantiated".  The referrer is
\* stored as given.
CreateId(name, ref) ==
    /\ name \notin members
    /\ members' = members \cup {name}
    /\ referrer_id' = [referrer_id EXCEPT ![name] = ref]
    /\ bond_count' = [bond_count EXCEPT ![name] = 0]
    /\ node_state' = [node_state EXCEPT ![name] = "instantiated"]
    /\ result' = [op |-> "create_id", ok |-> TRUE, id |-> name]
    /\ UNCHANGED <<bonds, now, txns, rewards, events, calls, traversal>>

\* ---------------------------------------------------------------- Bond graph
\* variant: the pair is stored in argument order
ordered_pair_AsGiven(id_1, id_2) == <<id_1, id_2>>

\* Bond.ordered_pair
ordered_pair(id_1, id_2) == IF id_1 < id_2 THEN <<id_1, id_2>> ELSE <<id_2, id_1>>

\* Bond.involves
involves(row, id) == row.node_a = id \/ row.node_b = id

\* Bond.peer_of
peer_of(row, id) == IF row.node_a = id THEN row.node_b ELSE row.node_a

\* query(Bond).filter_by(node_a, node_b).first(): the row id, or None
ExistingBond(a, b) ==
    LET S == {k \in 1..Len(bonds) : bonds[k].node_a = a /\ bonds[k].node_b = b}
    IN IF S = {} THEN None ELSE CHOOSE k \in S : \A j \in S : k <= j

\* query(Bond).filter(node_a == id | node_b == id).order_by(created_at desc)
\* .first(): the creation time of the node's most recent row, or -1
LastBondCreatedAt(id) ==
    LET S == {k \in 1..Len(bonds) : involves(bonds[k], id)}
    IN IF S = {} THEN -1
       ELSE LET k == CHOOSE k \in S : \A j \in S : bonds[k].created_at >= bonds[j].created_at
            IN bonds[k].created_at

\* variant: the window is closed at its end (<= instead of <)
CooldownActive_Inclusive(initiator_id) ==
    LET last == LastBondCreatedAt(initiator_id)
    IN last >= 0 /\ now - last <= FIELD_COOLDOWN_HOURS

\* the cooldown test of form_bond
CooldownActive(initiator_id) ==
    LET last == LastBondCreatedAt(initiator_id)
    IN last >= 0 /\ now - last < FIELD_COOLDOWN_HOURS

\* variant: the comparison is strict
Saturated_Strict(id) == bond_count[id] > FIELD_MAX_BONDS

\* the saturation test of form_bond
Saturated(id) == bond_count[id] >= FIELD_MAX_BONDS

\* no call has returned since the named one began
Pending(kind) == [op |-> "pending", call |-> kind, ok |-> FALSE]

\* a raised ValueError, named by its message
Fail(opname, args, e) == [op |-> opname, ok |-> FALSE, nodes |-> args, err |-> e]

\* variant: only the initiator's count is incremented
BumpCounts_InitiatorOnly(a, b) ==
    /\ bond_count' = [bond_count EXCEPT ![a] = @ + 1]
    /\ node_state' = [n \in DOMAIN node_state |->
                        IF n \in {a, b}
                        THEN update_node_state(bond_count'[n], node_state[n])
                        ELSE node_state[n]]

\* both endpoints gain one bond and recompute their state
BumpCounts(a, b) ==
    /\ bond_count' = [bond_count EXCEPT ![a] = @ + 1, ![b] = @ + 1]
    /\ node_state' = [n \in DOMAIN node_state |->
                        IF n \in {a, b}
                        THEN update_node_state(bond_count'[n], node_state[n])
                        ELSE node_state[n]]

\* variant: the cooldown is tested before the existing row is looked at
FormBond_CooldownFirst(initiator_id, peer_id) ==
    LET pair == ordered_pair(initiator_id, peer_id)
        existing == ExistingBond(pair[1], pair[2])
        rejected(e) == /\ result' = Fail("form_bond", <<initiator_id, peer_id>>, e)
                       /\ UNCHANGED <<bond_count, node_state, bonds>>
    IN
    /\ UNCHANGED <<members, referrer_id, now, txns, rewards, events, calls, traversal>>
    /\ IF initiator_id \notin members \/ peer_id \notin members
         THEN rejected("NotFound")
       ELSE IF initiator_id = peer_id
         THEN rejected("SelfReference")
       ELSE IF Saturated(initiator_id) \/ Saturated(peer_id)
         THEN rejected("CapacityExceeded")
       ELSE IF existing # None /\ bonds[existing].state = BOND_STATE_ACTIVE
         THEN rejected("AlreadyActive")
       ELSE IF CooldownActive(initiator_id)
         THEN rejected("Cooldown")
       ELSE IF existing # None /\ bonds[existing].state = BOND_STATE_INACTIVE
         THEN /\ bonds' = [bonds EXCEPT ![existing].state = BOND_STATE_ACTIVE]
              /\ BumpCounts(initiator_id, peer_id)
              /\ result' = [op |-> "form_bond", ok |-> TRUE, reactivated |-> TRUE,
                            bond_id |-> existing,
                            nodes |-> <<initiator_id, peer_id>>]
       ELSE /\ bonds' = Append(bonds, [node_a |-> pair[1], node_b |-> pair[2],
                                        state |-> BOND_STATE_ACTIVE,
                                        created_at |-> now])
            /\ BumpCounts(initiator_id, peer_id)
            /\ result' = [op |-> "form_bond", ok |-> TRUE, reactivated |-> FALSE,
                          bond_id |-> Len(bonds) + 1,
                          nodes |-> <<initiator_id, peer_id>>]

\* variant: the counts are incremented before the cooldown is tested and stay
\* incremented when the call is refused
FormBond_CountsBeforeCooldown(initiator_id, peer_id) ==
    LET pair == ordered_pair(initiator_id, peer_id)
        existing == ExistingBond(pair[1], pair[2])
        rejected(e) == /\ result' = Fail("form_bond", <<initiator_id, peer_id>>, e)
                       /\ UNCHANGED <<bond_count, node_state, bonds>>
    IN
    /\ UNCHANGED <<members, referrer_id, now, txns, rewards, events, calls, traversal>>
    /\ IF initiator_id \notin members \/ peer_id \notin members
         THEN rejected("NotFound")
       ELSE IF initiator_id = peer_id
         THEN rejected("SelfReference")
       ELSE IF Saturated(initiator_id) \/ Saturated(peer_id)
         THEN rejected("CapacityExceeded")
       ELSE IF existing # None /\ bonds[existing].state = BOND_STATE_ACTIVE
         THEN rejected("AlreadyActive")
       ELSE IF existing # None /\ bonds[existing].state = BOND_STATE_INACTIVE
         THEN /\ bonds' = [bonds EXCEPT ![existing].state = BOND_STATE_ACTIVE]
              /\ BumpCounts(initiator_id, peer_id)
              /\ result' = [op |-> "form_bond", ok |-> TRUE, reactivated |-> TRUE,
                            bond_id |-> existing,
                            nodes |-> <<initiator_id, peer_id>>]
       ELSE IF CooldownActive(initiator_id)
         THEN /\ result' = Fail("form_bond", <<initiator_id, peer_id>>, "Cooldown")
              /\ BumpCounts(initiator_id, peer_id)
              /\ UNCHANGED bonds
       ELSE /\ bonds' = Append(bonds, [node_a |-> pair[1], node_b |-> pair[2],
                                        state |-> BOND_STATE_ACTIVE,
                                        created_at |-> now])
            /\ BumpCounts(initiator_id, peer_id)
            /\ result' = [op |-> "form_bond", ok |-> TRUE, reactivated |-> FALSE,
                          bond_id |-> Len(bonds) + 1,
                          nodes |-> <<initiator_id, peer_id>>]

\* FieldEngine.form_bond
FormBond(initiator_id, peer_id) ==
    LET pair == ordered_pair(initiator_id, peer_id)
        existing == ExistingBond(pair[1], pair[2])
        rejected(e) == /\ result' = Fail("form_bond", <<initiator_id, peer_id>>, e)
                       /\ UNCHANGED <<bond_count, node_state, bonds>>
    IN
    /\ UNCHANGED <<members, referrer_id, now, txns, rewards, events, calls, traversal>>
    /\ IF initiator_id \notin members \/ peer_id \notin members
         THEN rejected("NotFound")
       ELSE IF initiator_id = peer_id
         THEN rejected("SelfReference")
       ELSE IF Saturated(initiator_id) \/ Saturated(peer_id)
         THEN rejected("CapacityExceeded")
       ELSE IF existing # None /\ bonds[existing].state = BOND_STATE_ACTIVE
         THEN rejected("AlreadyActive")
       ELSE IF existing # None /\ bonds[existing].state = BOND_STATE_INACTIVE
         THEN /\ bonds' = [bonds EXCEPT ![existing].state = BOND_STATE_ACTIVE]
              /\ BumpCounts(initiator_id, peer_id)
              /\ result' = [op |-> "form_bond", ok |-> TRUE, reactivated |-> TRUE,
                            bond_id |-> existing,
                            nodes |-> <<initiator_id, peer_id>>]
       ELSE IF CooldownActive(initiator_id)
         THEN rejected("Cooldown")
       ELSE /\ bonds' = Append(bonds, [node_a |-> pair[1], node_b |-> pair[2],
                                        state |-> BOND_STATE_ACTIVE,
                                        created_at |-> now])
            /\ BumpCounts(initiator_id, peer_id)
            /\ result' = [op |-> "form_bond", ok |-> TRUE, reactivated |-> FALSE,
                          bond_id |-> Len(bonds) + 1,
                          nodes |-> <<initiator_id, peer_id>>]

\* variant: the lookup ignores the state of the row
ActiveBond_AnyState(a, b) ==
    LET S == {k \in 1..Len(bonds) : bonds[k].node_a = a /\ bonds[k].node_b = b}
    IN IF S = {} THEN None ELSE CHOOSE k \in S : \A j \in S : k <= j

\* query(Bond).filter_by(node_a, node_b, state=ACTIVE).first()
ActiveBond(a, b) ==
    LET S == {k \in 1..Len(bonds) : /\ bonds[k].node_a = a /\ bonds[k].node_b = b
                                    /\ bonds[k].state = BOND_STATE_ACTIVE}
    IN IF S = {} THEN None ELSE CHOOSE k \in S : \A j \in S : k <= j

\* variant: dissolve_bond leaves the stored count as it was
Decrement_Keeps(bc) == bc

\* max(0, bond_count - 1)
Decrement(bc) == IF bc - 1 > 0 THEN bc - 1 ELSE 0

\* FieldEngine.dissolve_bond
DissolveBond(node_id, peer_id) ==
    LET pair == ordered_pair(node_id, peer_id)
        bond == ActiveBond(pair[1], pair[2])
    IN
    /\ UNCHANGED <<members, referrer_id, now, txns, rewards, events, calls, traversal>>
    /\ IF bond = None
         THEN /\ result' = Fail("dissolve_bond", <<node_id, peer_id>>, "NotFound")
              /\ UNCHANGED <<bond_count, node_state, bonds>>
       ELSE /\ bonds' = [bonds EXCEPT ![bond].state = BOND_STATE_INACTIVE]
            /\ bond_count' = [n \in DOMAIN bond_count |->
                                IF n \in {node_id, peer_id} /\ n \in members
                                THEN Decrement(bond_count[n]) ELSE bond_count[n]]
            /\ node_state' = [n \in DOMAIN node_state |->
                                IF n \in {node_id, peer_id} /\ n \in members
                                THEN update_node_state(bond_count'[n], node_state[n])
                                ELSE node_state[n]]
            /\ result' = [op |-> "dissolve_bond", ok |-> TRUE,
                          nodes |-> <<node_id, peer_id>>]

\* the wall clock moves on to a later instant; no call is pending afterwards
Tick(t) ==
    /\ t > now
    /\ now' = t
    /\ result' = [op |-> "tick", ok |-> TRUE]
    /\ UNCHANGED <<members, referrer_id, bond_count, node_state, bonds, txns,
                   rewards, events, calls, traversal>>

\* ------------------------------------------------------- form_bond step by step
\* Concurrent requests run in sessions of their own and nothing in form_bond
\* locks a row or a table: each query reads the committed tables at the moment
\* it runs, the Member objects keep the bond_count they were loaded with, and
\* the commit writes the row together with both counts computed from those
\* loaded values.  calls[w] holds the locals of the request of worker w.

\* lines 35-59: both members are loaded and checked
FormBegin(w, initiator_id, peer_id) ==
    /\ calls[w] = Idle
    /\ IF initiator_id \notin members \/ peer_id \notin members
         THEN /\ result' = Fail("form_bond", <<initiator_id, peer_id>>, "NotFound")
              /\ calls' = calls
       ELSE IF initiator_id = peer_id
         THEN /\ result' = Fail("form_bond", <<initiator_id, peer_id>>, "SelfReference")
              /\ calls' = calls
       ELSE IF Saturated(initiator_id) \/ Saturated(peer_id)
         THEN /\ result' = Fail("form_bond", <<initiator_id, peer_id>>, "CapacityExceeded")
              /\ calls' = calls
       ELSE /\ calls' = [calls EXCEPT ![w] =
                           [at |-> "lookup", initiator |-> initiator_id, peer |-> peer_id,
                            initiator_count |-> bond_count[initiator_id],
                            peer_count |-> bond_count[peer_id]]]
            /\ result' = Pending("form_bond")
    /\ UNCHANGED <<members, referrer_id, bond_count, node_state, bonds, now, txns,
                   rewards, events, traversal>>

\* lines 62-70: the row of the pair is looked up
FormLookup(w) ==
    LET c == calls[w]
        existing == ExistingBond(ordered_pair(c.initiator, c.peer)[1],
                                 ordered_pair(c.initiator, c.peer)[2])
    IN
    /\ c.at = "lookup"
    /\ IF existing # None /\ bonds[existing].state = BOND_STATE_ACTIVE
         THEN /\ result' = Fail("form_bond", <<c.initiator, c.peer>>, "AlreadyActive")
              /\ calls' = [calls EXCEPT ![w] = Idle]
       ELSE IF existing # None
         THEN /\ calls' = [calls EXCEPT ![w].at = "reactivate"]
              /\ result' = result
       ELSE /\ calls' = [calls EXCEPT ![w].at = "cooldown"]
            /\ result' = result
    /\ UNCHANGED <<members, referrer_id, bond_count, node_state, bonds, now, txns,
                   rewards, events, traversal>>

\* the counts and states written by the commit of worker w: the loaded values
\* plus one
CommitCounts(w) ==
    /\ bond_count' = [bond_count EXCEPT ![calls[w].initiator] = calls[w].initiator_count + 1,
                                        ![calls[w].peer] = calls[w].peer_count + 1]
    /\ node_state' = [n \in DOMAIN node_state |->
                        IF n \in {calls[w].initiator, calls[w].peer}
                        THEN update_node_state(bond_count'[n], node_state[n])
                        ELSE node_state[n]]

\* lines 71-86: the INACTIVE row found by the lookup is set ACTIVE and committed
FormReactivate(w) ==
    LET c == calls[w]
        existing == ExistingBond(ordered_pair(c.initiator, c.peer)[1],
                                 ordered_pair(c.initiator, c.peer)[2])
    IN
    /\ c.at = "reactivate"
    /\ bonds' = [bonds EXCEPT ![existing].state = BOND_STATE_ACTIVE]
    /\ CommitCounts(w)
    /\ result' = [op |-> "form_bond", ok |-> TRUE, reactivated |-> TRUE,
                  bond_id |-> existing, nodes |-> <<c.initiator, c.peer>>]
    /\ calls' = [calls EXCEPT ![w] = [at |-> "done", initiator |-> c.initiator,
                                      peer |-> c.peer, bond_id |-> existing,
                                      inserted |-> FALSE]]
    /\ UNCHANGED <<members, referrer_id, now, txns, rewards, events, traversal>>

\* lines 88-101: the initiator's newest row is read and tested
FormCooldown(w) ==
    /\ calls[w].at = "cooldown"
    /\ IF CooldownActive(calls[w].initiator)
       THEN /\ result' = Fail("form_bond", <<calls[w].initiator, calls[w].peer>>, "Cooldown")
            /\ calls' = [calls EXCEPT ![w] = Idle]
       ELSE /\ calls' = [calls EXCEPT ![w].at = "insert"]
            /\ result' = result
    /\ UNCHANGED <<members, referrer_id, bond_count, node_state, bonds, now, txns,
                   rewards, events, traversal>>

\* lines 103-120: the new row and both counts are committed; the unique
\* constraint on (node_a, node_b) rejects a second row of the pair
FormInsert(w) ==
    LET c == calls[w]
        pair == ordered_pair(c.initiator, c.peer)
    IN
    /\ c.at = "insert"
    /\ IF ExistingBond(pair[1], pair[2]) # None
       THEN /\ result' = Fail("form_bond", <<c.initiator, c.peer>>, "IntegrityError")
            /\ calls' = [calls EXCEPT ![w] = Idle]
            /\ UNCHANGED <<bonds, bond_count, node_state>>
       ELSE /\ bonds' = Append(bonds, [node_a |-> pair[1], node_b |-> pair[2],
                                        state |-> BOND_STATE_ACTIVE, created_at |-> now])
            /\ CommitCounts(w)
            /\ result' = [op |-> "form_bond", ok |-> TRUE, reactivated |-> FALSE,
                          bond_id |-> Len(bonds) + 1, nodes |-> <<c.initiator, c.peer>>]
            /\ calls' = [calls EXCEPT ![w] = [at |-> "done", initiator |-> c.initiator,
                                              peer |-> c.peer, bond_id |-> Len(bonds) + 1,
                                              inserted |-> TRUE]]
    /\ UNCHANGED <<members, referrer_id, now, txns, rewards, events, traversal>>

\* the response has been sent: the worker is free again
FormReturn(w) ==
    /\ calls[w].at = "done"
    /\ calls' = [calls EXCEPT ![w] = Idle]
    /\ UNCHANGED <<members, referrer_id, bond_count, node_state, bonds, now, txns,
                   rewards, events, result, traversal>>

\* --------------------------------------------------------------- quantities
\* A Decimal with 8 fractional digits is the pair <<whole, frac>>, frac counted
\* in units of 1e-8.  Within the amounts of the model (below 1e7, at most 15
\* significant digits) Decimal arithmetic at precision 28 is exact before the
\* quantize, and float(Decimal) followed by Decimal(str(float)) returns the
\* same decimal, so entry amounts are kept as these pairs.
UNIT == 100000000

QZero == <<0, 0>>

Q(w, f) == <<w, f>>

QAdd(a, b) == <<a[1] + b[1] + (a[2] + b[2]) \div UNIT, (a[2] + b[2]) % UNIT>>

QLess(a, b) == a[1] < b[1] \/ (a[1] = b[1] /\ a[2] < b[2])

\* a - b for b <= a
QSub(a, b) ==
    IF a[2] >= b[2] THEN <<a[1] - b[1], a[2] - b[2]>>
    ELSE <<a[1] - b[1] - 1, a[2] + UNIT - b[2]>>

\* a / 2 truncated to 1e-8
QHalf(a) == <<a[1] \div 2, ((a[1] % 2) * UNIT + a[2]) \div 2>>

RECURSIVE Pow(_, _)
Pow(b, e) == IF e = 0 THEN 1 ELSE b * Pow(b, e - 1)

\* variant: the exponent is one too small (hop 1 gets weight 1)
RECURSIVE QMulWeight_HopLess1(_, _)
QMulWeight_HopLess1(a, hop) == IF hop <= 1 THEN a ELSE QMulWeight_HopLess1(QHalf(a), hop - 1)

\* (a * (1 / DECAY_BASE ** hop)).quantize(1e-8, ROUND_DOWN).  The weight
\* 1/2**hop is an exact Decimal for hop <= 15 and the product is exact, so the
\* result is a / 2**hop truncated; truncated halving hop times gives that
\* value without leaving 32-bit integers.
RECURSIVE QMulWeight(_, _)
QMulWeight(a, hop) == IF hop = 0 THEN a ELSE QMulWeight(QHalf(a), hop - 1)

\* (a * percent / 100).quantize(1e-8, ROUND_DOWN)
QPercent(a, percent) ==
    LET wp == a[1] * percent
        fr == (wp % 100) * (UNIT \div 100) + (a[2] \div 100) * percent
              + ((a[2] % 100) * percent) \div 100
    IN <<wp \div 100 + fr \div UNIT, fr % UNIT>>

\* ------------------------------------------------------- propagation engine
\* recipients that are not members: the pseudo ids "POOL:<name>"
POOL_STABILITY == -1
POOL_LIQUIDITY == -2
POOL_INTELLIGENCE == -3
POOL_COMPLIANCE == -4

\* PropagationEngine._get_activity_score, in tenths:
\* min(round(count / 30 * 100, 1), 100.0); every transaction of the model lies
\* inside the 30-day window
ActivityScoreTenths(id) ==
    LET raw == (txns[id] * 1000 * 2 + FIELD_ACTIVITY_WINDOW_DAYS)
               \div (2 * FIELD_ACTIVITY_WINDOW_DAYS)
    IN IF raw < 1000 THEN raw ELSE 1000

\* score >= SETTLEMENT_MIN_ACTIVITY_SCORE
ActiveEnough(id) == ActivityScoreTenths(id) >= SETTLEMENT_MIN_ACTIVITY_SCORE * 10

\* FieldEngine.record_activity: one more Transaction row of the member id
RecordActivity(id) ==
    /\ txns' = [txns EXCEPT ![id] = @ + 1]
    /\ result' = [op |-> "record_activity", ok |-> TRUE, id |-> id]
    /\ UNCHANGED <<members, referrer_id, bond_count, node_state, bonds, now,
                   rewards, events, calls, traversal>>

\* query(Bond).filter(node_a == id | node_b == id, state == ACTIVE).all(): the
\* row ids, in table order
RECURSIVE ActiveBondsFrom(_, _)
ActiveBondsFrom(id, k) ==
    IF k > Len(bonds) THEN <<>>
    ELSE IF involves(bonds[k], id) /\ bonds[k].state = BOND_STATE_ACTIVE
         THEN <<k>> \o ActiveBondsFrom(id, k + 1)
         ELSE ActiveBondsFrom(id, k + 1)

ActiveBondsOf(id) == ActiveBondsFrom(id, 1)

Entry(rcp, amt, typ, hop, wgt) ==
    [recipient |-> rcp, amount |-> amt, type |-> typ, hop |-> hop, weight |-> wgt]

\* variant: the share of a peer below the activity threshold is dropped and
\* the walk does not go through it
VisitPeer_DropsInactive(peer, next_hop, hop_amount, st) ==
    IF peer \in st.visited THEN st
    ELSE IF next_hop > PROPAGATION_MAX_HOPS THEN st
    ELSE IF ~QLess(QZero, hop_amount) \/ ~ActiveEnough(peer)
         THEN [st EXCEPT !.visited = @ \cup {peer}]
    ELSE [st EXCEPT
            !.visited = @ \cup {peer},
            !.dists = Append(@, Entry(peer, hop_amount, "propagation", next_hop,
                                      <<1, Pow(PROPAGATION_DECAY_BASE, next_hop)>>)),
            !.total = QAdd(@, hop_amount),
            !.queue = Append(@, <<peer, next_hop>>)]

\* variant: a peer already visited is paid again
VisitPeer_NoVisitedCheck(peer, next_hop, hop_amount, st) ==
    IF next_hop > PROPAGATION_MAX_HOPS THEN st
    ELSE IF ~QLess(QZero, hop_amount) THEN [st EXCEPT !.visited = @ \cup {peer}]
    ELSE [st EXCEPT
            !.visited = @ \cup {peer},
            !.dists = Append(@,
                IF ActiveEnough(peer)
                THEN Entry(peer, hop_amount, "propagation", next_hop,
                           <<1, Pow(PROPAGATION_DECAY_BASE, next_hop)>>)
                ELSE Entry(POOL_STABILITY, hop_amount, "absorption", next_hop,
                           <<1, Pow(PROPAGATION_DECAY_BASE, next_hop)>>)),
            !.total = QAdd(@, hop_amount),
            !.queue = Append(@, <<peer, next_hop>>)]

\* one iteration of "for bond in bonds" of phase 2: the peer at next_hop with
\* its truncated share; st carries visited, queue, hop_distributions and
\* total_propagated
VisitPeer(peer, next_hop, hop_amount, st) ==
    IF peer \in st.visited THEN st
    ELSE IF next_hop > PROPAGATION_MAX_HOPS THEN st
    ELSE IF ~QLess(QZero, hop_amount) THEN [st EXCEPT !.visited = @ \cup {peer}]
    ELSE [st EXCEPT
            !.visited = @ \cup {peer},
            !.dists = Append(@,
                IF ActiveEnough(peer)
                THEN Entry(peer, hop_amount, "propagation", next_hop,
                           <<1, Pow(PROPAGATION_DECAY_BASE, next_hop)>>)
                ELSE Entry(POOL_STABILITY, hop_amount, "absorption", next_hop,
                           <<1, Pow(PROPAGATION_DECAY_BASE, next_hop)>>)),
            !.total = QAdd(@, hop_amount),
            !.queue = Append(@, <<peer, next_hop>>)]

\* variant: only the first bond of a node is followed
ScanBonds_FirstOnly(rs, cur, hop, energy, st) ==
    IF rs = <<>> THEN st
    ELSE VisitPeer(peer_of(bonds[Head(rs)], cur), hop + 1,
                   QMulWeight(energy, hop + 1), st)

\* "for bond in bonds" for the rows rs of node cur at distance hop
RECURSIVE ScanBonds(_, _, _, _, _)
ScanBonds(rs, cur, hop, energy, st) ==
    IF rs = <<>> THEN st
    ELSE ScanBonds(Tail(rs), cur, hop, energy,
                   VisitPeer(peer_of(bonds[Head(rs)], cur), hop + 1,
                             QMulWeight(energy, hop + 1), st))

\* one iteration of "while queue" of phase 2
PropIter(energy, st) ==
    ScanBonds(ActiveBondsOf(Head(st.queue)[1]), Head(st.queue)[1], Head(st.queue)[2],
              energy, [st EXCEPT !.queue = Tail(@)])

\* the "while queue" loop of phase 2
RECURSIVE Drain(_, _)
Drain(energy, st) ==
    IF st.queue = <<>> THEN st ELSE Drain(energy, PropIter(energy, st))

\* the locals of phase 2 before the loop, after an acknowledgement ack worth acked
PropStart(origin_id, ack, acked) ==
    [visited |-> {origin_id}, queue |-> << <<origin_id, 0>> >>,
     dists |-> ack, total |-> acked]

\* the pools of _calculate_absorption with their percentages, in list order
AbsorptionPools ==
    << <<POOL_STABILITY, ABSORPTION_STABILITY_PERCENT>>,
       <<POOL_LIQUIDITY, ABSORPTION_LIQUIDITY_PERCENT>>,
       <<POOL_INTELLIGENCE, ABSORPTION_INTELLIGENCE_PERCENT>>,
       <<POOL_COMPLIANCE, ABSORPTION_COMPLIANCE_PERCENT>> >>

RECURSIVE QSum(_)
QSum(amounts) == IF amounts = <<>> THEN QZero ELSE QAdd(Head(amounts), QSum(Tail(amounts)))

\* variant: the dust is dropped
calculate_absorption_NoDust(remainder) ==
    [i \in 1..Len(AbsorptionPools) |->
        [recipient |-> AbsorptionPools[i][1],
         amount |-> QPercent(remainder, AbsorptionPools[i][2]),
         type |-> "absorption", hop |-> -1, weight |-> <<0, 1>>]]

\* the entries of _calculate_absorption from the truncated shares and the dust
AbsorptionEntries(shares, dust) ==
    [i \in 1..Len(AbsorptionPools) |->
        Entry(AbsorptionPools[i][1],
              IF i = 1 THEN QAdd(shares[1], dust) ELSE shares[i],
              "absorption", -1, <<0, 1>>)]

\* dust = remainder - distributed, added when positive
WithDust(remainder, shares, distributed) ==
    AbsorptionEntries(shares, IF QLess(distributed, remainder)
                              THEN QSub(remainder, distributed) ELSE QZero)

PoolShares(remainder) ==
    [i \in 1..Len(AbsorptionPools) |-> QPercent(remainder, AbsorptionPools[i][2])]

\* PropagationEngine._calculate_absorption
calculate_absorption(remainder) ==
    WithDust(remainder, PoolShares(remainder), QSum(PoolShares(remainder)))

\* phase 1 of calculate_propagation: the acknowledgement entry, if any
Acknowledgement(origin_id, event_type) ==
    IF event_type = "join" /\ referrer_id[origin_id] # None
    THEN LET initiator == referrer_id[origin_id]
             ack_amount == Q(ACKNOWLEDGEMENT_AMOUNT, 0)
         IN IF initiator \in members /\ ActiveEnough(initiator)
            THEN <<Entry(initiator, ack_amount, "acknowledgement", 0, <<1, 1>>)>>
            ELSE <<Entry(POOL_STABILITY, ack_amount, "absorption", 0, <<1, 1>>)>>
    ELSE <<>>

\* phase 3 of calculate_propagation on the entries and the total of phases 1-2
Phase3(energy_amount, dists, total) ==
    IF QLess(total, energy_amount)
    THEN [distributions |-> dists \o calculate_absorption(QSub(energy_amount, total)),
          total_propagated |-> energy_amount,
          energy_input |-> energy_amount]
    ELSE [distributions |-> dists, total_propagated |-> total,
          energy_input |-> energy_amount]

\* phase 2 and 3 of calculate_propagation after the acknowledgement ack
Phase2(origin_id, energy_amount, ack, acked) ==
    LET propagation_energy ==
            IF QLess(acked, energy_amount) THEN QSub(energy_amount, acked)
            ELSE energy_amount
        walk == Drain(propagation_energy, PropStart(origin_id, ack, acked))
    IN Phase3(energy_amount, walk.dists, walk.total)

\* PropagationEngine.calculate_propagation for a registered origin
calculate_propagation(origin_id, energy_amount, event_type) ==
    LET ack == Acknowledgement(origin_id, event_type)
    IN Phase2(origin_id, energy_amount, ack, QSum([i \in 1..Len(ack) |-> ack[i].amount]))

\* variant: the preview records its entries as Reward rows
CalculatePropagation_Settles(origin_id, energy_amount, event_type) ==
    /\ result' =
         IF origin_id \notin members
         THEN [op |-> "calculate_propagation", ok |-> FALSE, err |-> "NotFound",
               origin |-> origin_id, event_type |-> event_type]
         ELSE [op |-> "calculate_propagation", ok |-> TRUE,
               origin |-> origin_id, event_type |-> event_type,
               calc |-> calculate_propagation(origin_id, energy_amount, event_type)]
    /\ rewards' =
         IF origin_id \notin members THEN rewards
         ELSE rewards \o
              [i \in 1..Len(calculate_propagation(origin_id, energy_amount, event_type).distributions) |->
                 [member_id |-> calculate_propagation(origin_id, energy_amount, event_type).distributions[i].recipient,
                  source_member_id |-> origin_id, status |-> "settled"]]
    /\ UNCHANGED <<members, referrer_id, bond_count, node_state, bonds, now, txns,
                   events, calls, traversal>>

\* ----------------------------------------- propagation under any row order
\* The query for a node's ACTIVE bonds has no ORDER BY: the database may return
\* the rows in any order.  An order is a sequence that lists every row id once;
\* the operators above take the rows in row-id order.
RowIdOrder == [k \in 1..Len(bonds) |-> k]

\* query(Bond).filter(node_a == id | node_b == id, state == ACTIVE).all() when
\* the rows come in the given order
ActiveBondsIn(order, id) ==
    SelectSeq(order, LAMBDA k : /\ k \in 1..Len(bonds)
                                /\ involves(bonds[k], id)
                                /\ bonds[k].state = BOND_STATE_ACTIVE)

\* one iteration of "while queue" of phase 2
PropIterIn(order, energy, st) ==
    ScanBonds(ActiveBondsIn(order, Head(st.queue)[1]), Head(st.queue)[1],
              Head(st.queue)[2], energy, [st EXCEPT !.queue = Tail(@)])

\* the "while queue" loop of phase 2
RECURSIVE DrainIn(_, _, _)
DrainIn(order, energy, st) ==
    IF st.queue = <<>> THEN st ELSE DrainIn(order, energy, PropIterIn(order, energy, st))

\* the outcome of phases 2 and 3 from the locals at the end of the loop
AfterDrain(energy_amount, st) == Phase3(energy_amount, st.dists, st.total)

\* phase 2 and 3 of calculate_propagation after the acknowledgement ack
Phase2In(order, origin_id, energy_amount, ack, acked) ==
    AfterDrain(energy_amount,
               DrainIn(order,
                       IF QLess(acked, energy_amount) THEN QSub(energy_amount, acked)
                       ELSE energy_amount,
                       PropStart(origin_id, ack, acked)))

\* PropagationEngine.calculate_propagation for a registered origin
calculate_propagation_in(order, origin_id, energy_amount, event_type) ==
    Phase2In(order, origin_id, energy_amount, Acknowledgement(origin_id, event_type),
             QSum([i \in 1..Len(Acknowledgement(origin_id, event_type)) |->
                     Acknowledgement(origin_id, event_type)[i].amount]))

\* the preview operation: calculate_propagation called through the API
CalculatePropagation(origin_id, energy_amount, event_type) ==
    /\ result' =
         IF origin_id \notin members
         THEN [op |-> "calculate_propagation", ok |-> FALSE, err |-> "NotFound",
               origin |-> origin_id, event_type |-> event_type]
         ELSE [op |-> "calculate_propagation", ok |-> TRUE,
               origin |-> origin_id, event_type |-> event_type,
               calc |-> calculate_propagation(origin_id, energy_amount, event_type)]
    /\ UNCHANGED <<members, referrer_id, bond_count, node_state, bonds, now, txns,
                   rewards, events, calls, traversal>>

\* the Reward rows of execute_propagation for the entries ds
RewardRows(origin_id, event_type, ds) ==
    [i \in 1..Len(ds) |->
        [member_id |-> ds[i].recipient, source_member_id |-> origin_id,
         amount |-> ds[i].amount, reward_type |-> ds[i].type,
         activity_type |-> event_type, status |-> "settled"]]

\* the loop and the commit of execute_propagation
Settle(origin_id, event_type, calc) ==
    /\ rewards' = rewards \o RewardRows(origin_id, event_type, calc.distributions)
    /\ result' = [op |-> "execute_propagation", ok |-> TRUE,
                  origin |-> origin_id, event_type |-> event_type,
                  calc |-> calc,
                  settlement_ids |-> [i \in 1..Len(calc.distributions) |-> Len(rewards) + i]]

\* PropagationEngine.execute_propagation: the preview, then one Reward row per
\* entry and one commit.  No EnergyEvent is written.
ExecutePropagation(origin_id, energy_amount, event_type) ==
    /\ IF origin_id \notin members
       THEN /\ result' = [op |-> "execute_propagation", ok |-> FALSE, err |-> "NotFound",
                          origin |-> origin_id, event_type |-> event_type]
            /\ rewards' = rewards
       ELSE Settle(origin_id, event_type,
                   calculate_propagation(origin_id, energy_amount, event_type))
    /\ UNCHANGED <<members, referrer_id, bond_count, node_state, bonds, now, txns, events, calls, traversal>>

\* ------------------------------------------------------------ field traversal
\* tuple(sorted([current_id, peer_id]))
EdgeKey(a, b) == ordered_pair(a, b)

\* variant: a peer in range is queued whether or not it was visited
FieldVisit_NoVisitedCheck(peer, cur, hops, max_hops, st) ==
    IF hops + 1 <= max_hops
    THEN [st EXCEPT !.visited = @ \cup {peer},
                    !.queue = Append(@, <<peer, hops + 1>>)]
    ELSE st

\* one iteration of "for bond in bonds" of get_field for node cur at distance
\* hops: the deduplicated edge, then the peer marked and queued when new and
\* within range
FieldVisit(peer, cur, hops, max_hops, st) ==
    LET withEdge ==
            IF \E i \in 1..Len(st.edges) : st.edges[i].key = EdgeKey(cur, peer)
            THEN st
            ELSE [st EXCEPT !.edges = Append(@, [source |-> cur, target |-> peer,
                                                 key |-> EdgeKey(cur, peer)])]
    IN IF peer \notin st.visited /\ hops + 1 <= max_hops
       THEN [withEdge EXCEPT !.visited = @ \cup {peer},
                             !.queue = Append(@, <<peer, hops + 1>>)]
       ELSE withEdge

RECURSIVE FieldScan(_, _, _, _, _)
FieldScan(rs, cur, hops, max_hops, st) ==
    IF rs = <<>> THEN st
    ELSE FieldScan(Tail(rs), cur, hops, max_hops,
                   FieldVisit(peer_of(bonds[Head(rs)], cur), cur, hops, max_hops, st))

\* the entry of list nodes for a registered node
FieldNode(origin, cur, hops) ==
    [id |-> cur, hops |-> hops, is_origin |-> (cur = origin),
     energy_weight |-> IF hops > 0 THEN <<1, Pow(PROPAGATION_DECAY_BASE, hops)>>
                       ELSE <<1, 1>>]

\* the body of "while queue" of get_field after popleft gave <<cur, hops>>
FieldBody(origin, cur, hops, max_hops, st) ==
    IF hops > max_hops THEN st
    ELSE FieldScan(ActiveBondsOf(cur), cur, hops, max_hops,
                   IF cur \in members
                   THEN [st EXCEPT !.nodes = Append(@, FieldNode(origin, cur, hops))]
                   ELSE st)

\* one iteration of "while queue" of get_field
FieldIter(origin, max_hops, st) ==
    FieldBody(origin, Head(st.queue)[1], Head(st.queue)[2], max_hops,
              [st EXCEPT !.queue = Tail(@)])

RECURSIVE FieldLoop(_, _, _)
FieldLoop(origin, max_hops, st) ==
    IF st.queue = <<>> THEN st ELSE FieldLoop(origin, max_hops, FieldIter(origin, max_hops, st))

\* the locals of get_field before the loop
FieldStart(helios_id) ==
    [visited |-> {helios_id}, nodes |-> <<>>, edges |-> <<>>,
     queue |-> << <<helios_id, 0>> >>]

\* max_hops = None stands for an absent argument
DefaultHops(max_hops) ==
    IF max_hops = None
    THEN (IF PROPAGATION_MAX_HOPS < 6 THEN PROPAGATION_MAX_HOPS ELSE 6)
    ELSE max_hops

\* the dict returned by get_field from the locals at the end of the loop
FieldReturn(helios_id, max_hops, st) ==
    [origin |-> helios_id, max_hops |-> max_hops, total_nodes |-> Len(st.nodes),
     total_bonds |-> Len(st.edges), nodes |-> st.nodes, edges |-> st.edges]

\* FieldEngine.get_field
get_field(helios_id, max_hops) ==
    FieldReturn(helios_id, DefaultHops(max_hops),
                FieldLoop(helios_id, DefaultHops(max_hops), FieldStart(helios_id)))

\* the path rebuilt from the predecessor map: "while visited[node] is not
\* None", then reverse
RECURSIVE PathBack(_, _)
PathBack(parent, node) ==
    IF parent[node] = None THEN <<node>>
    ELSE Append(PathBack(parent, parent[node]), node)

NoPath == [path |-> <<>>, hops |-> -1]

\* variant: a peer is queued whether or not it was visited
PathVisit_NoVisitedCheck(peer, cur, to_id, st) ==
    IF st.returned # NoPath THEN st
    ELSE IF peer = to_id
         THEN [st EXCEPT !.returned = [path |-> <<cur, peer>>, hops |-> 1]]
         ELSE [st EXCEPT !.visited = @ \cup {peer}, !.queue = Append(@, peer)]

\* one iteration of "for bond in bonds" of get_propagation_path; st.returned
\* holds the value of the return statement once it has been executed
PathVisit(peer, cur, to_id, st) ==
    IF st.returned # NoPath \/ peer \in st.visited THEN st
    ELSE IF peer = to_id
         THEN [st EXCEPT
                 !.visited = @ \cup {peer},
                 !.parent = [@ EXCEPT ![peer] = cur],
                 !.returned = [path |-> PathBack([st.parent EXCEPT ![peer] = cur], to_id),
                               hops |-> Len(PathBack([st.parent EXCEPT ![peer] = cur], to_id)) - 1]]
         ELSE [st EXCEPT !.visited = @ \cup {peer},
                         !.parent = [@ EXCEPT ![peer] = cur],
                         !.queue = Append(@, peer)]

RECURSIVE PathScan(_, _, _, _)
PathScan(rs, cur, to_id, st) ==
    IF rs = <<>> THEN st
    ELSE PathScan(Tail(rs), cur, to_id,
                  PathVisit(peer_of(bonds[Head(rs)], cur), cur, to_id, st))

\* variant: the rows of the node are scanned whatever their state
PathIter_AnyState(to_id, st) ==
    PathScan(SelectSeq([k \in 1..Len(bonds) |-> k],
                       LAMBDA k : involves(bonds[k], Head(st.queue))),
             Head(st.queue), to_id, [st EXCEPT !.queue = Tail(@)])

\* one iteration of "while queue" of get_propagation_path
PathIter(to_id, st) ==
    PathScan(ActiveBondsOf(Head(st.queue)), Head(st.queue), to_id,
             [st EXCEPT !.queue = Tail(@)])

RECURSIVE PathLoop(_, _)
PathLoop(to_id, st) ==
    IF st.queue = <<>> \/ st.returned # NoPath THEN st
    ELSE PathLoop(to_id, PathIter(to_id, st))

\* the locals of get_propagation_path before the loop
PathStart(from_id) ==
    [visited |-> {from_id}, parent |-> [n \in AllIds |-> None],
     queue |-> <<from_id>>, returned |-> NoPath]

\* FieldEngine.get_propagation_path
get_propagation_path(from_id, to_id) ==
    IF from_id = to_id THEN [path |-> <<from_id>>, hops |-> 0]
    ELSE PathLoop(to_id, PathStart(from_id)).returned

\* the two queries as operations of the API
GetField(helios_id, max_hops) ==
    /\ result' = [op |-> "get_field", ok |-> TRUE, origin |-> helios_id,
                  field |-> get_field(helios_id, max_hops)]
    /\ UNCHANGED <<members, referrer_id, bond_count, node_state, bonds, now, txns,
                   rewards, events, calls, traversal>>

GetPropagationPath(from_id, to_id) ==
    /\ result' = [op |-> "get_propagation_path", ok |-> TRUE,
                  from_id |-> from_id, to_id |-> to_id,
                  found |-> get_propagation_path(from_id, to_id)]
    /\ UNCHANGED <<members, referrer_id, bond_count, node_state, bonds, now, txns,
                   rewards, events, calls, traversal>>

\* ------------------------------------------------- the traversals step by step
\* The three breadth-first loops run one "while queue" iteration per step.
\* traversal.st holds the locals of the loop, traversal.popped counts per node
\* how often popleft (or pop(0)) returned it, 2 standing for "twice or more".
Bump(popped, id) == [popped EXCEPT ![id] = IF @ < 2 THEN @ + 1 ELSE 2]

Running(kind, origin, arg, st) ==
    [at |-> "running", kind |-> kind, origin |-> origin, arg |-> arg, st |-> st,
     popped |-> [n \in AllIds |-> 0]]

\* get_field enters its loop
WalkField(helios_id, max_hops) ==
    /\ traversal = Idle
    /\ traversal' = Running("get_field", helios_id, DefaultHops(max_hops),
                            FieldStart(helios_id))
    /\ result' = Pending("get_field")
    /\ UNCHANGED <<members, referrer_id, bond_count, node_state, bonds, now, txns,
                   rewards, events, calls>>

\* get_propagation_path returns at once for from_id = to_id and enters its loop
\* otherwise
WalkPath(from_id, to_id) ==
    /\ traversal = Idle
    /\ IF from_id = to_id
       THEN /\ traversal' = Idle
            /\ result' = [op |-> "get_propagation_path", ok |-> TRUE,
                          from_id |-> from_id, to_id |-> to_id,
                          found |-> [path |-> <<from_id>>, hops |-> 0]]
       ELSE /\ traversal' = Running("get_propagation_path", from_id, to_id,
                                    PathStart(from_id))
            /\ result' = Pending("get_propagation_path")
    /\ UNCHANGED <<members, referrer_id, bond_count, node_state, bonds, now, txns,
                   rewards, events, calls>>

\* calculate_propagation of a non-join event enters the loop of phase 2
WalkPropagation(origin_id, energy_amount) ==
    /\ traversal = Idle
    /\ origin_id \in members
    /\ traversal' = Running("calculate_propagation", origin_id, energy_amount,
                            PropStart(origin_id, <<>>, QZero))
    /\ result' = Pending("calculate_propagation")
    /\ UNCHANGED <<members, referrer_id, bond_count, node_state, bonds, now, txns,
                   rewards, events, calls>>

\* the loop condition of the running traversal
LoopGoesOn ==
    /\ traversal.st.queue # <<>>
    /\ traversal.kind = "get_propagation_path" => traversal.st.returned = NoPath

\* the node the next iteration takes from the queue
NextPopped ==
    IF traversal.kind = "get_propagation_path" THEN Head(traversal.st.queue)
    ELSE Head(traversal.st.queue)[1]

\* one iteration of the running loop
WalkStep ==
    /\ traversal.at = "running"
    /\ LoopGoesOn
    /\ traversal' =
         [traversal EXCEPT
            !.popped = Bump(@, NextPopped),
            !.st = IF traversal.kind = "get_field"
                     THEN FieldIter(traversal.origin, traversal.arg, @)
                   ELSE IF traversal.kind = "get_propagation_path"
                     THEN PathIter(traversal.arg, @)
                   ELSE PropIter(traversal.arg, @)]
    /\ UNCHANGED <<members, referrer_id, bond_count, node_state, bonds, now, txns,
                   rewards, events, result, calls>>

\* the loop has ended: the traversal returns its value
WalkReturn ==
    /\ traversal.at = "running"
    /\ ~LoopGoesOn
    /\ traversal' = Idle
    /\ result' =
         IF traversal.kind = "get_field"
           THEN [op |-> "get_field", ok |-> TRUE, origin |-> traversal.origin,
                 field |-> FieldReturn(traversal.origin, traversal.arg, traversal.st)]
         ELSE IF traversal.kind = "get_propagation_path"
           THEN [op |-> "get_propagation_path", ok |-> TRUE,
                 from_id |-> traversal.origin, to_id |-> traversal.arg,
                 found |-> traversal.st.returned]
         ELSE [op |-> "calculate_propagation", ok |-> TRUE,
               origin |-> traversal.origin, event_type |-> "transfer",
               calc |-> Phase3(traversal.arg, traversal.st.dists, traversal.st.total)]
    /\ UNCHANGED <<members, referrer_id, bond_count, node_state, bonds, now, txns,
                   rewards, events, calls>>

\* -------------------------------------------- execute_propagation step by step
\* A request runs in its own session (app.py before_request): db.add only
\* queues a row in the session, db.commit writes the queued rows in one
\* transaction, and a session that ends without commit (teardown after an
\* exception, or the death of the process) writes nothing.  calls[w].added is
\* the number of rows queued so far.

\* line 166: the preview; a missing origin raises before anything is queued
ExecBegin(w, origin_id, energy_amount, event_type) ==
    /\ calls[w].at \in {"idle", "crashed"}
    /\ IF origin_id \notin members
       THEN /\ result' = [op |-> "execute_propagation", ok |-> FALSE, err |-> "NotFound",
                          origin |-> origin_id, event_type |-> event_type]
            /\ calls' = [calls EXCEPT ![w] = Idle]
       ELSE /\ calls' = [calls EXCEPT ![w] =
                           [at |-> "adding", origin |-> origin_id,
                            event_type |-> event_type, added |-> 0,
                            calc |-> calculate_propagation(origin_id, energy_amount,
                                                           event_type)]]
            /\ result' = Pending("execute_propagation")
    /\ UNCHANGED <<members, referrer_id, bond_count, node_state, bonds, now, txns,
                   rewards, events, traversal>>

\* variant: every db.add is committed on its own
ExecAdd_Autocommit(w) ==
    /\ calls[w].at = "adding"
    /\ calls[w].added < Len(calls[w].calc.distributions)
    /\ calls' = [calls EXCEPT ![w].added = @ + 1]
    /\ rewards' = Append(rewards,
                         RewardRows(calls[w].origin, calls[w].event_type,
                                    calls[w].calc.distributions)[calls[w].added + 1])
    /\ UNCHANGED <<members, referrer_id, bond_count, node_state, bonds, now, txns,
                   events, result, traversal>>

\* lines 170-182: one iteration of the loop queues one Reward row
ExecAdd(w) ==
    /\ calls[w].at = "adding"
    /\ calls[w].added < Len(calls[w].calc.distributions)
    /\ calls' = [calls EXCEPT ![w].added = @ + 1]
    /\ UNCHANGED <<members, referrer_id, bond_count, node_state, bonds, now, txns,
                   rewards, events, result, traversal>>

\* line 184: the commit writes the queued rows, then the call returns
ExecCommit(w) ==
    /\ calls[w].at = "adding"
    /\ calls[w].added = Len(calls[w].calc.distributions)
    /\ rewards' = rewards \o SubSeq(RewardRows(calls[w].origin, calls[w].event_type,
                                               calls[w].calc.distributions),
                                    1, calls[w].added)
    /\ result' = [op |-> "execute_propagation", ok |-> TRUE,
                  origin |-> calls[w].origin, event_type |-> calls[w].event_type,
                  calc |-> calls[w].calc,
                  settlement_ids |-> [i \in 1..calls[w].added |-> Len(rewards) + i]]
    /\ calls' = [calls EXCEPT ![w] = Idle]
    /\ UNCHANGED <<members, referrer_id, bond_count, node_state, bonds, now, txns,
                   events, traversal>>

\* the process dies before the commit: the session and its queued rows are lost
ExecCrash(w) ==
    /\ calls[w].at = "adding"
    /\ calls' = [calls EXCEPT ![w] = [at |-> "crashed", origin |-> calls[w].origin,
                                      event_type |-> calls[w].event_type,
                                      added |-> calls[w].added]]
    /\ result' = [op |-> "execute_propagation", ok |-> FALSE, err |-> "Crashed",
                  origin |-> calls[w].origin, event_type |-> calls[w].event_type]
    /\ UNCHANGED <<members, referrer_id, bond_count, node_state, bonds, now, txns,
                   rewards, events, traversal>>

\* -------------------------------------------------------------------- ledger
\* Ledger amounts are floats; the model counts them in units of 1e-4 HE, the
\* precision verify_conservation rounds its balance to.  The amounts of the
\* model and their splits are whole numbers of units.
HE(x) == x * 10000

\* pseudo ids written to from_id / to_id
POOL_TREASURY_SURPLUS == -5
POOL_INFRASTRUCTURE == -6
POOL_BUFFER == -7
BURN_PERMANENT == -9
Cert(certificate_id) == -100 - certificate_id

\* EnergyExchange._record_event: the table with one more row
record_event(evs, event_type, from_id, to_id, amount_he) ==
    Append(evs, [event_type |-> event_type, from_id |-> from_id, to_id |-> to_id,
                 amount_he |-> amount_he])

LedgerOk(opname) == [op |-> opname, ok |-> TRUE]
LedgerFail(opname, e) == [op |-> opname, ok |-> FALSE, err |-> e]

\* EnergyExchange.inject_entry_energy; amount_usd = None stands for an absent
\* (or zero) argument
InjectEntryEnergy(member_id, amount_usd) ==
    LET amount == IF amount_usd = None THEN HE(ENTRY_FEE_USD) ELSE amount_usd
        e1 == record_event(events, "ENERGY_IN", None, member_id, amount)
        e2 == record_event(e1, "ENERGY_POOL", member_id, POOL_LIQUIDITY,
                           (amount * ENERGY_LIQUIDITY_PERCENT) \div 100)
        e3 == record_event(e2, "ENERGY_POOL", member_id, POOL_TREASURY_SURPLUS,
                           (amount * ENERGY_TREASURY_PERCENT) \div 100)
        e4 == record_event(e3, "ENERGY_POOL", member_id, POOL_INFRASTRUCTURE,
                           (amount * ENERGY_INFRASTRUCTURE_PERCENT) \div 100)
        e5 == record_event(e4, "ENERGY_POOL", member_id, POOL_BUFFER,
                           (amount * ENERGY_BUFFER_PERCENT) \div 100)
    IN
    /\ IF member_id \notin members
       THEN /\ result' = LedgerFail("inject_entry_energy", "NotFound")
            /\ events' = events
       ELSE /\ events' = e5
            /\ result' = LedgerOk("inject_entry_energy")
    /\ UNCHANGED <<members, referrer_id, bond_count, node_state, bonds, now, txns, rewards, calls, traversal>>

\* EnergyExchange.route_energy
RouteEnergy(from_id, to_id, amount_he) ==
    /\ events' = record_event(events, "ENERGY_ROUTE", from_id, to_id, amount_he)
    /\ result' = LedgerOk("route_energy")
    /\ UNCHANGED <<members, referrer_id, bond_count, node_state, bonds, now, txns, rewards, calls, traversal>>

\* EnergyExchange.store_energy
StoreEnergy(member_id, amount_he, certificate_id) ==
    /\ IF amount_he < HE(CERTIFICATE_MIN_ENERGY_HE)
       THEN /\ result' = LedgerFail("store_energy", "MinimumEnergy")
            /\ events' = events
       ELSE /\ events' = record_event(events, "ENERGY_STORE", member_id,
                                      Cert(certificate_id), amount_he)
            /\ result' = LedgerOk("store_energy")
    /\ UNCHANGED <<members, referrer_id, bond_count, node_state, bonds, now, txns, rewards, calls, traversal>>

\* EnergyExchange.redeem_energy
RedeemEnergy(certificate_id, redemption_type, amount_he, member_id) ==
    /\ IF redemption_type \notin CERTIFICATE_REDEMPTION_TYPES
       THEN /\ result' = LedgerFail("redeem_energy", "InvalidRedemptionType")
            /\ events' = events
       ELSE /\ events' = record_event(events, "ENERGY_REDEEM", Cert(certificate_id),
                                      member_id, amount_he)
            /\ result' = LedgerOk("redeem_energy")
    /\ UNCHANGED <<members, referrer_id, bond_count, node_state, bonds, now, txns, rewards, calls, traversal>>

\* variant: the cancellation removes the certificate's STORE events
CancelEnergy_RewritesStore(certificate_id, amount_he, member_id) ==
    LET friction == (amount_he * CERTIFICATE_CANCEL_FRICTION_PERCENT) \div 100
        kept == SelectSeq(events, LAMBDA e : ~(e.event_type = "ENERGY_STORE"
                                               /\ e.to_id = Cert(certificate_id)))
        e1 == record_event(kept, "ENERGY_CANCEL", Cert(certificate_id), member_id,
                           amount_he - friction)
    IN
    /\ events' = record_event(e1, "ENERGY_BURN", Cert(certificate_id), BURN_PERMANENT, friction)
    /\ result' = LedgerOk("cancel_energy")
    /\ UNCHANGED <<members, referrer_id, bond_count, node_state, bonds, now, txns,
                   rewards, calls, traversal>>

\* EnergyExchange.cancel_energy
CancelEnergy(certificate_id, amount_he, member_id) ==
    LET friction == (amount_he * CERTIFICATE_CANCEL_FRICTION_PERCENT) \div 100
        returned == amount_he - friction
        e1 == record_event(events, "ENERGY_CANCEL", Cert(certificate_id), member_id, returned)
    IN
    /\ events' = record_event(e1, "ENERGY_BURN", Cert(certificate_id), BURN_PERMANENT, friction)
    /\ result' = LedgerOk("cancel_energy")
    /\ UNCHANGED <<members, referrer_id, bond_count, node_state, bonds, now, txns, rewards, calls, traversal>>

\* totals.get(event_type, 0.0) of verify_conservation
RECURSIVE TotalOf(_, _)
TotalOf(evs, event_type) ==
    IF evs = <<>> THEN 0
    ELSE (IF Head(evs).event_type = event_type THEN Head(evs).amount_he ELSE 0)
         + TotalOf(Tail(evs), event_type)

Abs(x) == IF x < 0 THEN -x ELSE x

\* EnergyExchange.verify_conservation on the committed table
verify_conservation ==
    LET total_in == TotalOf(events, "ENERGY_IN")
        total_out == TotalOf(events, "ENERGY_ROUTE") + TotalOf(events, "ENERGY_STORE")
                     + TotalOf(events, "ENERGY_POOL") + TotalOf(events, "ENERGY_BURN")
        balance == total_in - total_out
    IN [total_in |-> total_in, total_out |-> total_out,
        total_redeemed |-> TotalOf(events, "ENERGY_REDEEM"),
        total_cancelled |-> TotalOf(events, "ENERGY_CANCEL"),
        balance |-> balance,
        balanced |-> Abs(balance) < HE(1) \div 100,
        event_count |-> Len(events)]

\* ------------------------------------------------------------ specifications
\* number of ACTIVE bond rows that have n as an endpoint
ActiveDegree(n) ==
    Cardinality({k \in 1..Len(bonds) :
                    involves(bonds[k], n) /\ bonds[k].state = BOND_STATE_ACTIVE})

NextName == Cardinality(members) + 1

Init ==
    /\ members = {}
    /\ referrer_id = [n \in AllIds |-> None]
    /\ bond_count = [n \in AllIds |-> 0]
    /\ node_state = [n \in AllIds |-> "none"]
    /\ bonds = <<>>
    /\ now = 0
    /\ txns = [n \in AllIds |-> 0]
    /\ rewards = <<>>
    /\ events = <<>>
    /\ result = [op |-> "init", ok |-> TRUE]
    /\ calls = [w \in Workers |-> Idle]
    /\ traversal = Idle

\* the bond graph under the clock: any pair of MaxNodes ids
Next ==
    \/ /\ NextName <= MaxNodes
       /\ CreateId(NextName, None)
    \/ \E i \in Nodes, p \in Nodes : FormBond(i, p) /\ Len(bonds') <= MaxRows
    \/ \E i \in Nodes, p \in Nodes : DissolveBond(i, p)
    \/ \E t \in Instants : Tick(t)

Spec == Init /\ [][Next]_vars

\* the degree cap: CapNodes ids, every call has the hub as one endpoint, the
\* clock stands still, and the spokes get their first bond row in id order
\* (a call names a spoke only when every smaller spoke already has a row)
Spokes == CapIds \ {Hub}

HasRow(a, b) == ExistingBond(ordered_pair(a, b)[1], ordered_pair(a, b)[2]) # None

SpokeOf(pr) == IF pr[1] = Hub THEN pr[2] ELSE pr[1]

HubPairs ==
    {pr \in CapIds \X CapIds :
        /\ pr[1] = Hub \/ pr[2] = Hub
        /\ \A s \in Spokes : s < SpokeOf(pr) => HasRow(s, Hub)}

NextCap ==
    \/ /\ NextName <= CapNodes
       /\ CreateId(NextName, None)
    \/ \E pr \in HubPairs : FormBond(pr[1], pr[2])
    \/ \E pr \in HubPairs : DissolveBond(pr[1], pr[2])
    \/ \E o \in {Hub, Hub + 1} : CalculatePropagation(o, Q(100, 0), "transfer")

SpecCap == Init /\ [][NextCap]_vars

\* inputs of the propagation calls
Amounts == {Q(100, 0), Q(0, 3)}
EventTypes == {"join", "transfer"}

\* propagation over a small field: PropNodes ids without introducers, the
\* clock stands still, the newer member of a pair is the one that calls,
\* members in ActivityIds may record activity
PropIds == 1..PropNodes
PropCalls == {pr \in PropIds \X PropIds : pr[1] > pr[2]}
ActivityIds == {1, 3}

NextProp ==
    \/ /\ NextName <= PropNodes
       /\ CreateId(NextName, None)
    \/ \E pr \in PropCalls : FormBond(pr[1], pr[2]) /\ Len(bonds') <= MaxRows
    \/ \E pr \in PropCalls : DissolveBond(pr[1], pr[2])
    \/ \E id \in ActivityIds \cap members : txns[id] < MaxTxns /\ RecordActivity(id)
    \/ \E o \in PropIds, q \in Amounts, e \in EventTypes : CalculatePropagation(o, q, e)

SpecProp == Init /\ [][NextProp]_vars

\* the ledger and the settlement: LedgerNodes members without bonds, member 2
\* may name member 1 as its introducer
LedgerIds == 1..LedgerNodes
Referrers(name) == IF name = 2 THEN {None, 1} ELSE {None}
EntryAmounts == {None, HE(50)}
StoreAmounts == {HE(5), HE(10)}
RedemptionTypes == {"GOLD", "SILVER"}
SettledAmounts == {Q(45, 0)}

NextLedger ==
    \/ /\ NextName <= LedgerNodes
       /\ \E ref \in Referrers(NextName) : CreateId(NextName, ref)
    \/ \E m \in LedgerIds, a \in EntryAmounts :
          InjectEntryEnergy(m, a) /\ Len(events') <= MaxEvents
    \/ RouteEnergy(1, 2, HE(10)) /\ Len(events') <= MaxEvents
    \/ \E a \in StoreAmounts : StoreEnergy(1, a, 1) /\ Len(events') <= MaxEvents
    \/ \E t \in RedemptionTypes : RedeemEnergy(1, t, HE(10), 1) /\ Len(events') <= MaxEvents
    \/ CancelEnergy(1, HE(10), 1) /\ Len(events') <= MaxEvents
    \/ \E o \in LedgerIds, q \in SettledAmounts, e \in EventTypes :
          ExecutePropagation(o, q, e) /\ Len(rewards') <= MaxRewards

SpecLedger == Init /\ [][NextLedger]_vars

\* the traversals over a field with cycles: PathNodes ids, registered before
\* the first bond; the newer member of a pair is the one that calls form_bond,
\* the clock moves on by one cooldown before the last row is formed (so that a
\* member can initiate a second bond and close a cycle), and dissolve_bond is
\* called on pairs that have a row once PathRows rows exist.  A query leaves
\* every table as it is, so it is only issued after a call that is not a query.
PathIds == 1..PathNodes
PathCalls == {pr \in PathIds \X PathIds : pr[1] > pr[2]}
PathInstants == {FIELD_COOLDOWN_HOURS}
HopLimits == {None, 0, 1, 2}
QueryOps == {"get_field", "get_propagation_path"}

NextPath ==
    \/ /\ NextName <= PathNodes
       /\ CreateId(NextName, None)
    \/ /\ NextName > PathNodes
       /\ \E pr \in PathCalls : FormBond(pr[1], pr[2]) /\ Len(bonds') <= PathRows
    \/ /\ Len(bonds) = PathRows
       /\ \E pr \in PathCalls : HasRow(pr[1], pr[2]) /\ DissolveBond(pr[2], pr[1])
    \/ /\ Len(bonds) = PathRows - 1
       /\ \E t \in PathInstants : Tick(t)
    \/ /\ result.op \notin QueryOps
       /\ \E o \in PathIds, h \in HopLimits : GetField(o, h)
    \/ /\ result.op \notin QueryOps
       /\ \E a \in PathIds, b \in PathIds : GetPropagationPath(a, b)

SpecPath == Init /\ [][NextPath]_vars

\* the loops step by step over a field with a cycle: WalkNodes ids, the graph is
\* built as for the queries, without dissolutions, and stands still while a
\* traversal runs; a running traversal always gets its next step
WalkIds == 1..WalkNodes
WalkCalls == {pr \in WalkIds \X WalkIds : pr[1] > pr[2]}
WalkHops == {None, 1}

NextWalk ==
    \/ /\ NextName <= WalkNodes
       /\ traversal = Idle
       /\ CreateId(NextName, None)
    \/ /\ NextName > WalkNodes
       /\ traversal = Idle
       /\ \E pr \in WalkCalls : FormBond(pr[1], pr[2]) /\ Len(bonds') <= WalkRows
    \/ /\ Len(bonds) = WalkRows - 1
       /\ traversal = Idle
       /\ \E t \in PathInstants : Tick(t)
    \/ /\ result.op \notin QueryOps \cup {"calculate_propagation"}
       /\ \/ \E o \in WalkIds, h \in WalkHops : WalkField(o, h)
          \/ \E a \in WalkIds, b \in WalkIds : WalkPath(a, b)
          \/ \E o \in WalkIds : WalkPropagation(o, Q(100, 0))
    \/ WalkStep
    \/ WalkReturn

SpecWalk == Init /\ [][NextWalk]_vars /\ WF_vars(WalkStep) /\ WF_vars(WalkReturn)

\* settlement step by step: the members of the ledger runs, two workers that
\* may execute for member 1 or 2, crash and retry
TxnOrigins == {1, 2}

NextTxn ==
    \/ /\ NextName <= LedgerNodes
       /\ \E ref \in Referrers(NextName) : CreateId(NextName, ref)
    \/ \E w \in Workers, o \in TxnOrigins, q \in SettledAmounts, e \in EventTypes :
          ExecBegin(w, o, q, e)
    \/ \E w \in Workers : ExecAdd(w)
    \/ \E w \in Workers : ExecCommit(w) /\ Len(rewards') <= TxnRewards
    \/ \E w \in Workers : ExecCrash(w)

SpecTxn == Init /\ [][NextTxn]_vars

\* concurrent bond formation around the hub: the ids and pairs of the
\* degree-cap runs; worker 1 forms the bonds step by step, spokes in id order;
\* worker 2 sends a request of its own while one of worker 1 is in flight and
\* the hub is one bond short of the cap; bonds are dissolved while no request
\* is in flight
RacePairs ==
    {pr \in CapIds \X CapIds :
        /\ pr[1] = Hub \/ pr[2] = Hub
        /\ Cardinality({s \in Spokes : s < SpokeOf(pr) /\ ~HasRow(s, Hub)}) <= 1}

NoneInFlight == \A w \in Workers : calls[w] = Idle

NextRace ==
    \/ /\ NextName <= CapNodes
       /\ NoneInFlight
       /\ CreateId(NextName, None)
    \/ /\ NoneInFlight
       /\ \E pr \in HubPairs : DissolveBond(pr[1], pr[2])
    \/ /\ calls[2] = Idle
       /\ \E pr \in HubPairs : FormBegin(1, pr[1], pr[2])
    \/ /\ calls[1] # Idle
       /\ ActiveDegree(Hub) = FIELD_MAX_BONDS - 1
       /\ \E pr \in RacePairs : FormBegin(2, pr[1], pr[2])
    \/ \E w \in Workers : FormLookup(w)
    \/ \E w \in Workers : FormReactivate(w)
    \/ \E w \in Workers : FormCooldown(w)
    \/ \E w \in Workers : FormInsert(w)
    \/ \E w \in Workers : FormReturn(w)

SpecRace == Init /\ [][NextRace]_vars

\* concurrent bond formation by one initiator: the ids of the bond-graph runs,
\* the clock stands still, both workers run form_bond step by step with the
\* newer member of a pair calling; bonds are dissolved while no request is in
\* flight
RushCalls == {pr \in Nodes \X Nodes : pr[1] > pr[2]}

NextRush ==
    \/ /\ NextName <= MaxNodes
       /\ NoneInFlight
       /\ CreateId(NextName, None)
    \/ /\ NoneInFlight
       /\ \E pr \in RushCalls : DissolveBond(pr[1], pr[2])
    \/ \E w \in Workers, pr \in RushCalls : FormBegin(w, pr[1], pr[2])
    \/ \E w \in Workers : FormLookup(w)
    \/ \E w \in Workers : FormReactivate(w)
    \/ \E w \in Workers : FormCooldown(w)
    \/ \E w \in Workers : FormInsert(w) /\ Len(bonds') <= MaxRows
    \/ \E w \in Workers : FormReturn(w)

SpecRush == Init /\ [][NextRush]_vars

\* joins with an introducer over bonds: member 2 may name member 1 as its
\* introducer, any member may bond with any other, member 1 may record
\* activity, the clock stands still
JoinAmounts == {Q(100, 0), Q(ACKNOWLEDGEMENT_AMOUNT, 0), Q(4, 0)}

JoinIds == 1..JoinNodes
JoinCalls == {pr \in JoinIds \X JoinIds : pr[1] # pr[2]}

NextJoin ==
    \/ /\ NextName <= JoinNodes
       /\ \E ref \in Referrers(NextName) : CreateId(NextName, ref)
    \/ \E pr \in JoinCalls : FormBond(pr[1], pr[2]) /\ Len(bonds') <= MaxRows
    \/ \E pr \in JoinCalls : HasRow(pr[1], pr[2]) /\ DissolveBond(pr[1], pr[2])
    \/ txns[1] < MaxTxns /\ 1 \in members /\ RecordActivity(1)
    \/ /\ result.op # "calculate_propagation"
       /\ \E o \in JoinIds, q \in JoinAmounts, e \in EventTypes : CalculatePropagation(o, q, e)

SpecJoin == Init /\ [][NextJoin]_vars

\* previews over graphs with cycles: the members are registered, member 1
\* may become active, then bonds are formed (the cooldown passes before the last
\* one), dissolved and formed again
ReachIds == 1..ReachNodes
ReachCalls == {pr \in ReachIds \X ReachIds : pr[1] > pr[2]}

NextReach ==
    \/ /\ NextName <= ReachNodes
       /\ CreateId(NextName, None)
    \/ /\ NextName > ReachNodes
       /\ bonds = <<>>
       /\ txns[1] < MaxTxns /\ RecordActivity(1)
    \/ /\ NextName > ReachNodes
       /\ \E pr \in ReachCalls : FormBond(pr[1], pr[2]) /\ Len(bonds') <= ReachRows
    \/ /\ Len(bonds) = ReachRows
       /\ \E pr \in ReachCalls : HasRow(pr[1], pr[2]) /\ DissolveBond(pr[2], pr[1])
    \/ /\ Len(bonds) = ReachRows - 1
       /\ \E t \in PathInstants : Tick(t)
    \/ /\ result.op # "calculate_propagation"
       /\ \E o \in ReachIds, q \in Amounts : CalculatePropagation(o, q, "transfer")

SpecReach == Init /\ [][NextReach]_vars

\* get_field step by step while bonds are formed: every loop iteration issues
\* its own queries (network.py 188-203) and the session holds no snapshot
\* between them, so a form_bond committed by another request between two
\* iterations is seen by the later one.  No bond is dissolved in these runs:
\* the rows are only added and all are ACTIVE.
SnapIds == 1..SnapNodes
SnapCalls == {pr \in SnapIds \X SnapIds : pr[1] # pr[2]}

NextSnap ==
    \/ /\ NextName <= SnapNodes
       /\ CreateId(NextName, None)
    \/ /\ NextName > SnapNodes
       /\ \E pr \in SnapCalls : FormBond(pr[1], pr[2]) /\ Len(bonds') <= SnapRows
    \/ /\ bonds # <<>>
       /\ traversal = Idle
       /\ \E t \in PathInstants : Tick(t)
    \/ /\ bonds # <<>>
       /\ \E o \in SnapIds : WalkField(o, None)
    \/ WalkStep
    \/ WalkReturn

SpecSnap == Init /\ [][NextSnap]_vars

\* ------------------------------------------------------------------ claims
\* C1: after any sequence of form_bond and dissolve_bond calls, no node is an
\* endpoint of more than 5 ACTIVE bond rows.
C1_DegreeCap == \A n \in AllIds : ActiveDegree(n) <= FIELD_MAX_BONDS

\* the hub holds 5 ACTIVE bonds, a sixth row of the hub is INACTIVE, and the
\* call that tried to reactivate it was refused for capacity
C1_Witness ==
    /\ ActiveDegree(Hub) = FIELD_MAX_BONDS
    /\ Len(bonds) = FIELD_MAX_BONDS + 1
    /\ result.op = "form_bond" /\ ~result.ok /\ result.err = "CapacityExceeded"

\* C2: at most one bond row per unordered pair of node ids, every row stored
\* smaller id first, hence no row with node_a = node_b.
C2_CanonicalUnique ==
    /\ \A k \in 1..Len(bonds) : bonds[k].node_a < bonds[k].node_b
    /\ \A j \in 1..Len(bonds), k \in 1..Len(bonds) :
          j # k => {bonds[j].node_a, bonds[j].node_b} # {bonds[k].node_a, bonds[k].node_b}

\* form_bond(b, a) with b > a found the row stored as (a, b) already ACTIVE
C2_Witness ==
    /\ result.op = "form_bond" /\ ~result.ok /\ result.err = "AlreadyActive"
    /\ result.nodes[1] > result.nodes[2]
    /\ \E k \in 1..Len(bonds) : /\ bonds[k].node_a = result.nodes[2]
                                /\ bonds[k].node_b = result.nodes[1]

\* C6: the lifecycle state of every member is a function of its bond count:
\* stable iff 5, propagating iff 3 or 4, connected iff 1 or 2, and a
\* pre-connection state (instantiated, acknowledged) iff 0.
C6_StateFromCount ==
    \A n \in members :
        /\ node_state[n] = "stable" <=> bond_count[n] = 5
        /\ node_state[n] = "propagating" <=> bond_count[n] \in {3, 4}
        /\ node_state[n] = "connected" <=> bond_count[n] \in {1, 2}
        /\ node_state[n] \in {"instantiated", "acknowledged"} <=> bond_count[n] = 0

\* the call form_bond(x, p) of a step would insert a new row: it passes every
\* check that precedes the cooldown test and the pair has no row
WouldInsert(x, p) ==
    /\ x \in members /\ p \in members /\ x # p
    /\ bond_count[x] < FIELD_MAX_BONDS /\ bond_count[p] < FIELD_MAX_BONDS
    /\ ~HasRow(x, p)

\* the most recently created row with x as an endpoint is younger than 24 hours
RecentRow(x) ==
    \E k \in 1..Len(bonds) :
        /\ involves(bonds[k], x)
        /\ \A j \in 1..Len(bonds) : involves(bonds[j], x) => bonds[j].created_at <= bonds[k].created_at
        /\ now - bonds[k].created_at < 24

C7_Step ==
    IF result'.op = "form_bond" /\ WouldInsert(result'.nodes[1], result'.nodes[2])
    THEN IF RecentRow(result'.nodes[1])
         THEN /\ ~result'.ok /\ result'.err = "Cooldown"
              /\ bonds' = bonds /\ bond_count' = bond_count /\ node_state' = node_state
         ELSE /\ result'.ok
              /\ Len(bonds') = Len(bonds) + 1
    ELSE TRUE

\* C7: a form_bond(x, p) call that would insert a new row fails with Cooldown
\* and inserts nothing when x's most recently created row (any state, either
\* endpoint) is younger than 24 hours, and inserts the row otherwise; the
\* peer's rows play no part.
C7_Cooldown == [][C7_Step]_vars

\* a second new bond of the initiator was refused 23 hours after its first,
\* one hour before the window ends
C7_Witness ==
    /\ result.op = "form_bond" /\ ~result.ok /\ result.err = "Cooldown"
    /\ now = 24
    /\ \E k \in 1..Len(bonds) : involves(bonds[k], result.nodes[1]) /\ bonds[k].created_at = 1

C8_Step ==
    IF result'.op = "form_bond" /\ result'.ok
    THEN LET a == result'.nodes[1]
             b == result'.nodes[2]
             row == ExistingBond(ordered_pair(a, b)[1], ordered_pair(a, b)[2])
         IN row # None /\ bonds[row].state = BOND_STATE_INACTIVE =>
              /\ Len(bonds') = Len(bonds)
              /\ result'.bond_id = row
              /\ bonds' = [bonds EXCEPT ![row].state = BOND_STATE_ACTIVE]
              /\ bond_count'[a] = bond_count[a] + 1
              /\ bond_count'[b] = bond_count[b] + 1
              /\ \A n \in AllIds \ {a, b} : bond_count'[n] = bond_count[n]
    ELSE TRUE

\* C8: a successful form_bond on a pair whose row is INACTIVE, in either
\* argument order, leaves the number of rows unchanged, returns that row's id,
\* sets the row ACTIVE and increments both endpoints' bond counts by exactly 1.
C8_ReactivatesSameRow == [][C8_Step]_vars

\* the first row was dissolved and re-formed with the arguments reversed while
\* a second row exists
C8_Witness ==
    /\ result.op = "form_bond" /\ result.ok /\ result.reactivated
    /\ result.bond_id = 1 /\ Len(bonds) = 2
    /\ result.nodes[1] > result.nodes[2]
    /\ bonds[1].state = BOND_STATE_ACTIVE

\* the quantities of a list of entries
AmountsOf(ds) == [i \in 1..Len(ds) |-> ds[i].amount]

\* the last call was a preview that returned a Distribution Result
Previewed == result.op = "calculate_propagation" /\ result.ok

\* C3: for every origin, graph, event type and Q > 0, the quantities of the
\* entries returned by calculate_propagation sum exactly to Q.
C3_SumsToQ ==
    Previewed => QSum(AmountsOf(result.calc.distributions)) = result.calc.energy_input

\* the ACTIVE peers of a node
ActivePeers(n) ==
    {peer_of(bonds[k], n) : k \in {j \in 1..Len(bonds) :
        involves(bonds[j], n) /\ bonds[j].state = BOND_STATE_ACTIVE}}

\* the preview ran for an origin whose only ACTIVE bonds go to two peers that
\* have no other ACTIVE bond and are active enough, with quantity 100 and a
\* non-join event
C9_Case ==
    /\ Previewed
    /\ result.event_type # "join"
    /\ result.calc.energy_input = Q(100, 0)
    /\ Cardinality(ActivePeers(result.origin)) = 2
    /\ \A p \in ActivePeers(result.origin) :
          ActivePeers(p) = {result.origin} /\ txns[p] >= 3

\* C9: in that case each of the two peers gets exactly one entry, 50 at hop 1
\* with weight 1/2, nothing else is allocated with a positive quantity, and
\* the allocations sum to 100.
C9_TwoPeers ==
    C9_Case =>
        LET ds == result.calc.distributions
            pos == {i \in 1..Len(ds) : QLess(QZero, ds[i].amount)}
        IN /\ \A p \in ActivePeers(result.origin) :
                 \E i \in pos :
                    /\ ds[i] = Entry(p, Q(50, 0), "propagation", 1, <<1, 2>>)
                    /\ \A j \in pos : ds[j].recipient = p => j = i
           /\ \A i \in pos : ds[i].recipient \in ActivePeers(result.origin)
           /\ \A i \in 1..Len(ds) : ds[i].hop # -1
           /\ QSum(AmountsOf(ds)) = Q(100, 0)

C9_Witness == C9_Case /\ Len(result.calc.distributions) = 2

\* k * a for 0 <= k <= 100, the fraction multiplied in two halves of 4 digits
QTimes(a, k) ==
    LET hk == (a[2] \div 10000) * k
        fr == (hk % 10000) * 10000 + (a[2] % 10000) * k
    IN <<a[1] * k + hk \div 10000 + fr \div UNIT, fr % UNIT>>

\* a is at least q * percent / 100 truncated to 1e-8
AtLeastTruncPercent(a, q, percent) ==
    QLess(QTimes(q, percent), QAdd(QTimes(a, 100), Q(0, 100)))

\* a is q * percent / 100 truncated to 1e-8
IsTruncPercent(a, q, percent) ==
    /\ ~QLess(QTimes(q, percent), QTimes(a, 100))
    /\ AtLeastTruncPercent(a, q, percent)

\* the preview ran for an origin without ACTIVE bonds and phase 1 did not apply
C10_Case ==
    /\ Previewed
    /\ ActivePeers(result.origin) = {}
    /\ result.event_type # "join" \/ referrer_id[result.origin] = None

\* the phase-3 entries of a Distribution Result and the other ones
Absorbed(ds) == SelectSeq(ds, LAMBDA d : d.hop = -1)
Allocated(ds) == SelectSeq(ds, LAMBDA d : d.hop # -1)

\* C10: an origin with no ACTIVE bonds gets a result, not an error; when phase 1
\* does not apply the result is exactly four pool entries (stability,
\* liquidity, intelligence, compliance) worth Q*40/100, Q*25/100, Q*20/100 and
\* Q*15/100 truncated to 1e-8, the first one raised by the rounding dust, so
\* that they sum to Q (100 gives 40/25/20/15); and in every result the phase-3
\* entries sum exactly to the remainder left by the other entries.
C10_Absorption ==
    /\ C10_Case =>
         LET ds == result.calc.distributions
             q == result.calc.energy_input
         IN /\ Len(ds) = 4
            /\ \A i \in 1..4 : /\ ds[i].recipient = AbsorptionPools[i][1]
                               /\ ds[i].type = "absorption" /\ ds[i].hop = -1
            /\ \A i \in 2..4 : IsTruncPercent(ds[i].amount, q, AbsorptionPools[i][2])
            /\ AtLeastTruncPercent(ds[1].amount, q, AbsorptionPools[1][2])
            /\ QSum(AmountsOf(ds)) = q
            /\ q = Q(100, 0) => AmountsOf(ds) = <<Q(40, 0), Q(25, 0), Q(20, 0), Q(15, 0)>>
    /\ Previewed /\ Absorbed(result.calc.distributions) # <<>> =>
         QAdd(QSum(AmountsOf(Absorbed(result.calc.distributions))),
              QSum(AmountsOf(Allocated(result.calc.distributions))))
           = result.calc.energy_input

\* an isolated origin previewed 0.00000003: every share but the first truncates
\* to 0 and the dust lifts the stability pool to the whole quantity
C10_Witness ==
    /\ C10_Case
    /\ result.calc.energy_input = Q(0, 3)
    /\ AmountsOf(result.calc.distributions) = <<Q(0, 3), QZero, QZero, QZero>>

\* C4: in every state reached by public operations of which the last is a
\* successful execute_propagation, verify_conservation reports balanced.
C4_BalancedAfterExecute ==
    result.op = "execute_propagation" /\ result.ok => verify_conservation.balanced

LedgerOps == {"inject_entry_energy", "route_energy", "store_energy",
              "redeem_energy", "cancel_energy"}

\* C5: after every completed ledger operation the total of IN events equals
\* the total of ROUTE, STORE, POOL and BURN events (REDEEM and CANCEL are not
\* counted).
C5_LedgerBalances ==
    result.op \in LedgerOps /\ result.ok =>
        TotalOf(events, "ENERGY_IN")
          = TotalOf(events, "ENERGY_ROUTE") + TotalOf(events, "ENERGY_STORE")
            + TotalOf(events, "ENERGY_POOL") + TotalOf(events, "ENERGY_BURN")

\* the row of the unordered pair {a, b} that is ACTIVE, or None
ActiveRowOf(a, b) ==
    LET S == {k \in 1..Len(bonds) : /\ {bonds[k].node_a, bonds[k].node_b} = {a, b}
                                    /\ bonds[k].state = BOND_STATE_ACTIVE}
    IN IF S = {} THEN None ELSE CHOOSE k \in S : TRUE

C20_Step ==
    /\ Len(bonds') >= Len(bonds)
    /\ IF result'.op = "dissolve_bond"
       THEN LET a == result'.nodes[1]
                b == result'.nodes[2]
                row == ActiveRowOf(a, b)
            IN IF row = None
               THEN /\ ~result'.ok /\ result'.err = "NotFound"
                    /\ bonds' = bonds /\ bond_count' = bond_count
                    /\ node_state' = node_state
               ELSE /\ result'.ok
                    /\ bonds' = [bonds EXCEPT ![row].state = BOND_STATE_INACTIVE]
                    /\ \A n \in {a, b} :
                          bond_count'[n] = (IF bond_count[n] > 0 THEN bond_count[n] - 1 ELSE 0)
                    /\ \A n \in AllIds \ {a, b} : bond_count'[n] = bond_count[n]
       ELSE TRUE

\* C20: dissolve_bond(a, b) fails with NotFound and changes nothing when the
\* pair has no ACTIVE row (no row, or an INACTIVE one); otherwise it sets that
\* row INACTIVE, lowers both endpoints' bond counts by 1 (not below 0) and
\* keeps the row; no operation ever lowers the number of bond rows.
C20_DissolveKeepsRow == [][C20_Step]_vars

\* dissolve_bond was refused on a pair whose row is INACTIVE, with the
\* arguments in non-canonical order, while both counts are back at 0
C20_Witness ==
    /\ result.op = "dissolve_bond" /\ ~result.ok /\ result.err = "NotFound"
    /\ result.nodes[1] > result.nodes[2]
    /\ \E k \in 1..Len(bonds) :
          /\ bonds[k].node_a = result.nodes[2] /\ bonds[k].node_b = result.nodes[1]
          /\ bonds[k].state = BOND_STATE_INACTIVE
    /\ bond_count[result.nodes[1]] = 0 /\ bond_count[result.nodes[2]] = 0

C13_Step ==
    result'.op = "calculate_propagation" =>
        /\ members' = members /\ referrer_id' = referrer_id
        /\ bonds' = bonds /\ bond_count' = bond_count /\ node_state' = node_state
        /\ txns' = txns /\ events' = events /\ rewards' = rewards

\* C13: calculate_propagation has no side effects: whether it returns or
\* fails, members, bond rows, bond counts, node states, ledger events and
\* Reward rows are the same before and after the call.
C13_PreviewIsPure == [][C13_Step]_vars

\* a preview returned an entry for a bonded peer
C13_Witness ==
    /\ Previewed
    /\ \E i \in 1..Len(result.calc.distributions) :
          /\ result.calc.distributions[i].type = "propagation"
          /\ result.calc.distributions[i].recipient \in ActivePeers(result.origin)
    /\ rewards = <<>> /\ events = <<>>

\* s is an initial segment of t
IsPrefix(s, t) == Len(s) <= Len(t) /\ \A i \in 1..Len(s) : t[i] = s[i]

\* C14: the ledger is append-only: after every operation the list of events
\* still holds every earlier event, in place and with the same kind, source,
\* destination and quantity; cancel and burn are recorded as new events.
C14_AppendOnly == [][IsPrefix(events, events')]_vars

\* a stored amount was cancelled: the STORE event is still there, followed by
\* the CANCEL and BURN events of the cancellation
C14_Witness ==
    /\ result.op = "cancel_energy" /\ result.ok
    /\ Len(events) = 3
    /\ events[1].event_type = "ENERGY_STORE" /\ events[1].amount_he = HE(10)
    /\ events[2].event_type = "ENERGY_CANCEL"
    /\ events[3].event_type = "ENERGY_BURN"

\* a quantity of the engine in the ledger's units of 1e-4 HE
QToHE(a) == a[1] * 10000 + a[2] \div (UNIT \div 10000)

C11_Step ==
    result'.op = "execute_propagation" /\ result'.ok =>
        LET ds == result'.calc.distributions
        IN /\ \E q \in SettledAmounts :
                result'.calc = calculate_propagation(result'.origin, q, result'.event_type)
           /\ Len(events') = Len(events) + Len(ds)
           /\ IsPrefix(events, events')
           /\ \A i \in 1..Len(ds) :
                 /\ Len(events) + i <= Len(events')
                 /\ events'[Len(events) + i].to_id = ds[i].recipient
                 /\ events'[Len(events) + i].amount_he = QToHE(ds[i].amount)

\* C11: a successful execute_propagation returns what calculate_propagation
\* computes on the same state and adds to the ledger read by
\* verify_conservation exactly one event per entry of the result, with that
\* entry's recipient and quantity.
C11_OneEventPerAllocation == [][C11_Step]_vars

\* the nodes joined to a node of S by an ACTIVE bond, and S itself
Neighbourhood(S) ==
    S \cup {n \in AllIds : \E k \in 1..Len(bonds) :
                /\ bonds[k].state = BOND_STATE_ACTIVE
                /\ \E m \in S : {bonds[k].node_a, bonds[k].node_b} = {m, n}}

\* the nodes within k ACTIVE bonds of o
RECURSIVE Ball(_, _)
Ball(o, k) == IF k = 0 THEN {o} ELSE Neighbourhood(Ball(o, k - 1))

\* n can be reached from o over ACTIVE bonds; no shortest path is longer than
\* the number of rows
Reachable(o, n) == n \in Ball(o, Len(bonds))

\* the shortest-path distance of a reachable node
Dist(o, n) == CHOOSE k \in 0..Len(bonds) :
                 n \in Ball(o, k) /\ (k = 0 \/ n \notin Ball(o, k - 1))

\* C15: get_propagation_path(a, b) returns, when b is reachable from a over
\* ACTIVE bonds, a list from a to b whose consecutive nodes are joined by an
\* ACTIVE bond, without repetition, with hops = len - 1 = the shortest-path
\* distance; when b is not reachable it returns the empty path with hops -1.
C15_ShortestPath ==
    result.op = "get_propagation_path" =>
        LET a == result.from_id
            b == result.to_id
            path == result.found.path
        IN IF Reachable(a, b)
           THEN /\ Len(path) >= 1
                /\ path[1] = a /\ path[Len(path)] = b
                /\ \A i \in 1..(Len(path) - 1) : ActiveRowOf(path[i], path[i + 1]) # None
                /\ \A i \in 1..Len(path), j \in 1..Len(path) : i # j => path[i] # path[j]
                /\ result.found.hops = Len(path) - 1
                /\ result.found.hops = Dist(a, b)
           ELSE result.found = NoPath

\* the path from 1 to 3 goes over 2 because the direct row of the pair is
\* INACTIVE
C15_Witness ==
    /\ result.op = "get_propagation_path"
    /\ result.from_id = 1 /\ result.to_id = 3
    /\ result.found = [path |-> <<1, 2, 3>>, hops |-> 2]
    /\ \E k \in 1..Len(bonds) : /\ bonds[k].node_a = 1 /\ bonds[k].node_b = 3
                                /\ bonds[k].state = BOND_STATE_INACTIVE

C17_Terminates ==
    /\ [](traversal.at = "running" => \A n \in AllIds : traversal.popped[n] <= 1)
    /\ (traversal.at = "running" ~> traversal = Idle)

\* a traversal from node 1 has emptied its queue on a triangle of ACTIVE bonds,
\* having taken each of the three nodes once
C17_Witness ==
    /\ traversal.at = "running" /\ traversal.st.queue = <<>>
    /\ traversal.origin = 1
    /\ \A n \in 1..3 : traversal.popped[n] = 1 /\ ActivePeers(n) = (1..3) \ {n}

\* the rows a call in flight is going to record
RowsOf(w) == RewardRows(calls[w].origin, calls[w].event_type, calls[w].calc.distributions)

C12_Step ==
    /\ rewards' = rewards
       \/ \E w \in Workers : /\ calls[w].at = "adding"
                             /\ result'.op = "execute_propagation" /\ result'.ok
                             /\ rewards' = rewards \o RowsOf(w)
    /\ result'.op = "execute_propagation" /\ ~result'.ok => rewards' = rewards

\* C12: execute_propagation is all-or-none: the committed table of Reward rows
\* only ever changes by gaining the complete list of rows of one call, at that
\* call's commit; a call that fails (origin not found) or dies before its
\* commit leaves the table as it was, so that a retry records its rows once.
C12_AllOrNone == [][C12_Step]_vars

\* worker 1 died after queueing rows; the retry by worker 2 committed, and the
\* table holds the rows of one call only
C12_Witness ==
    /\ calls[1].at = "crashed" /\ calls[1].added >= 1
    /\ result.op = "execute_propagation" /\ result.ok
    /\ result.origin = calls[1].origin /\ result.event_type = calls[1].event_type
    /\ calls[2] = Idle
    /\ rewards = RewardRows(result.origin, result.event_type, result.calc.distributions)

\* C18: when form_bond calls that share an endpoint holding 4 ACTIVE bonds run
\* concurrently, in every interleaving of their steps the endpoint ends with at
\* most 5 ACTIVE bonds and a bond count of at most 5.
C18_CapUnderRace ==
    \A n \in CapIds : ActiveDegree(n) <= FIELD_MAX_BONDS /\ bond_count[n] <= FIELD_MAX_BONDS

\* C19: when one initiator issues two form_bond calls to two different new
\* peers concurrently, in no interleaving do both calls insert a row: the
\* initiator never gains two newly created rows less than 24 hours apart.
C19_CooldownUnderRace ==
    \A v \in Workers, w \in Workers :
        /\ v # w
        /\ calls[v].at = "done" /\ calls[v].inserted
        /\ calls[w].at = "done" /\ calls[w].inserted
        /\ calls[v].initiator = calls[w].initiator
        /\ calls[v].peer # calls[w].peer
        => Abs(bonds[calls[v].bond_id].created_at - bonds[calls[w].bond_id].created_at)
             >= FIELD_COOLDOWN_HOURS

\* C21: for every origin, graph and Q > 0 the phase-1 and phase-2 allocations
\* (to nodes and to the stability pool) sum to at most Q, so the remainder
\* entering phase 3 is never negative, also with 3, 4 or 5 hop-1 peers.
C21_NeverOverAllocates ==
    Previewed =>
        ~QLess(result.calc.energy_input,
               QSum(AmountsOf(Allocated(result.calc.distributions))))

\* phase 1 applies to the previewed call: a join whose origin has a registered
\* introducer
PhaseOneApplies ==
    /\ result.event_type = "join"
    /\ referrer_id[result.origin] # None
    /\ referrer_id[result.origin] \in members

\* C22: whenever phase 1 applies, phase 2 is fed R = Q - A with A the fixed
\* acknowledgement amount, for every Q including Q <= A (where nothing is left
\* to propagate); R = Q only when phase 1 does not apply.  Every phase-2 entry
\* at hop h is worth R / 2^h truncated.
C22_PhaseTwoGetsRest ==
    Previewed =>
        LET q == result.calc.energy_input
            ds == result.calc.distributions
        IN \A i \in 1..Len(ds) :
              ds[i].hop >= 1 =>
                 IF PhaseOneApplies
                 THEN /\ QLess(Q(ACKNOWLEDGEMENT_AMOUNT, 0), q)
                      /\ ds[i].amount = QMulWeight(QSub(q, Q(ACKNOWLEDGEMENT_AMOUNT, 0)),
                                                   ds[i].hop)
                 ELSE ds[i].amount = QMulWeight(q, ds[i].hop)


\* the phase-2 entries of a result: those of a hop >= 1
PhaseTwo(ds) == SelectSeq(ds, LAMBDA d : d.hop >= 1)

\* the members at shortest-path distance h from o over ACTIVE bonds
AtDistance(o, h) == {n \in members : Reachable(o, n) /\ Dist(o, n) = h}

\* C23: in phase 2 every entry has a hop in 1..15 and the quantity R / 2^hop
\* truncated at 1e-8; an entry paid to a node is paid to a node other than the
\* origin whose shortest-path distance over ACTIVE bonds is the hop, and no
\* node is paid twice; the entries of hop h, paid or redirected, are no more
\* than the nodes at distance h, and are as many while the share is not zero
\* (no node is further away than there are rows).
\* (Without an introducer R is the whole quantity.)
C23_PaidOnceAtDistance ==
    Previewed =>
        LET o == result.origin
            q == result.calc.energy_input
            ds == PhaseTwo(result.calc.distributions)
        IN /\ \A i \in 1..Len(ds) :
                /\ ds[i].hop <= PROPAGATION_MAX_HOPS
                /\ ds[i].amount = QMulWeight(q, ds[i].hop)
                /\ ds[i].recipient # o
                /\ ds[i].recipient # POOL_STABILITY =>
                      /\ ds[i].recipient \in AtDistance(o, ds[i].hop)
                      /\ \A j \in 1..Len(ds) :
                            ds[j].recipient = ds[i].recipient => j = i
           /\ \A h \in 1..PROPAGATION_MAX_HOPS :
                (h <= Len(bonds) \/ \E i \in 1..Len(ds) : ds[i].hop = h) =>
                   /\ Cardinality({i \in 1..Len(ds) : ds[i].hop = h})
                         <= Cardinality(AtDistance(o, h))
                   /\ QLess(QZero, QMulWeight(q, h)) =>
                         Cardinality({i \in 1..Len(ds) : ds[i].hop = h})
                            = Cardinality(AtDistance(o, h))

\* a triangle of ACTIVE bonds: each peer of the origin is found again from the
\* other peer and is still paid once, at hop 1
C23_Witness ==
    /\ Previewed
    /\ Len(bonds) = 3
    /\ \A k \in 1..3 : bonds[k].state = BOND_STATE_ACTIVE
    /\ Cardinality(AtDistance(result.origin, 1)) = 2
    /\ Len(PhaseTwo(result.calc.distributions)) = 2


\* phase 1 is entered: a join whose origin names an introducer
HasIntroducer == result.event_type = "join" /\ referrer_id[result.origin] # None

\* the quantity phase 2 shares out after the acknowledgement, as the engine
\* computes it
PropagationEnergy(q) ==
    IF HasIntroducer /\ QLess(Q(ACKNOWLEDGEMENT_AMOUNT, 0), q)
    THEN QSub(q, Q(ACKNOWLEDGEMENT_AMOUNT, 0)) ELSE q

\* the entries of ds of the given hop whose recipient is rcp
EntriesFor(ds, hop, rcp) == SelectSeq(ds, LAMBDA d : d.hop = hop /\ d.recipient = rcp)

\* C24: the share of a recipient below the activity threshold goes to the
\* stability pool and is never dropped.  Phase 1 records exactly one entry of
\* the acknowledgement amount, to the introducer if it is registered and its
\* score reaches the threshold and to the pool otherwise.  In phase 2 every
\* node at distance h whose share is not zero gets exactly one entry of that
\* share, to itself if its score reaches the threshold and to the pool
\* otherwise, whatever the scores of the nodes on the way to it.
C24_GatingRedirects ==
    Previewed =>
        LET o == result.origin
            ds == result.calc.distributions
            intro == referrer_id[result.origin]
            share(h) == QMulWeight(PropagationEnergy(result.calc.energy_input), h)
        IN /\ IF HasIntroducer
              THEN SelectSeq(ds, LAMBDA d : d.hop = 0) =
                     <<IF intro \in members /\ ActiveEnough(intro)
                       THEN Entry(intro, Q(ACKNOWLEDGEMENT_AMOUNT, 0),
                                  "acknowledgement", 0, <<1, 1>>)
                       ELSE Entry(POOL_STABILITY, Q(ACKNOWLEDGEMENT_AMOUNT, 0),
                                  "absorption", 0, <<1, 1>>)>>
              ELSE SelectSeq(ds, LAMBDA d : d.hop = 0) = <<>>
           /\ \A h \in 1..Len(bonds) :
                QLess(QZero, share(h)) =>
                   /\ \A n \in AtDistance(o, h) :
                         ActiveEnough(n) =>
                            /\ Len(EntriesFor(ds, h, n)) = 1
                            /\ EntriesFor(ds, h, n)[1].amount = share(h)
                            /\ EntriesFor(ds, h, n)[1].type = "propagation"
                   /\ Len(EntriesFor(ds, h, POOL_STABILITY))
                         = Cardinality({n \in AtDistance(o, h) : ~ActiveEnough(n)})
                   /\ \A i \in 1..Len(EntriesFor(ds, h, POOL_STABILITY)) :
                         /\ EntriesFor(ds, h, POOL_STABILITY)[i].amount = share(h)
                         /\ EntriesFor(ds, h, POOL_STABILITY)[i].type = "absorption"

\* member 2 joins with the active member 1 as introducer and reaches it through
\* member 3, which is below the threshold: 10 to member 1, 45 redirected to
\* the pool at hop 1, 22.5 to member 1 at hop 2
C24_Witness ==
    /\ Previewed
    /\ HasIntroducer
    /\ result.calc.energy_input = Q(100, 0)
    /\ Len(EntriesFor(result.calc.distributions, 0, 1)) = 1
    /\ AmountsOf(EntriesFor(result.calc.distributions, 1, POOL_STABILITY)) = <<Q(45, 0)>>
    /\ AmountsOf(EntriesFor(result.calc.distributions, 2, 1)) = <<<<22, 50000000>>>>


\* the row of the unordered pair {a, b}, in any state, or None
RowOfPair(a, b) ==
    LET S == {k \in 1..Len(bonds) : {bonds[k].node_a, bonds[k].node_b} = {a, b}}
    IN IF S = {} THEN None ELSE CHOOSE k \in S : TRUE

C25_Step ==
    IF result'.op = "form_bond"
    THEN LET a == result'.nodes[1]
             b == result'.nodes[2]
             row == RowOfPair(a, b)
         IN (/\ a \in members /\ b \in members /\ a # b
             /\ bond_count[a] < FIELD_MAX_BONDS /\ bond_count[b] < FIELD_MAX_BONDS
             /\ row # None /\ bonds[row].state = BOND_STATE_INACTIVE)
            => /\ result'.ok /\ result'.reactivated
               /\ bonds' = [bonds EXCEPT ![row].state = BOND_STATE_ACTIVE]
    ELSE TRUE

\* C25: form_bond on a pair whose row is INACTIVE, both nodes registered and
\* below 5 bonds, succeeds by reactivating the row however recently the
\* initiator's latest row was created: the cooldown is not consulted.
C25_ReactivationSkipsCooldown == [][C25_Step]_vars

\* a row was reactivated in the same instant in which the initiator's other
\* row was created, inside the initiator's cooldown window
C25_Witness ==
    /\ result.op = "form_bond" /\ result.ok /\ result.reactivated
    /\ CooldownActive(result.nodes[1])
    /\ \E k \in 1..Len(bonds) :
          /\ k # result.bond_id
          /\ involves(bonds[k], result.nodes[1])
          /\ bonds[k].created_at = now
          /\ bonds[k].created_at > bonds[result.bond_id].created_at


\* the reasons for which form_bond(a, b) is refused in the current state
Refusals(a, b) ==
    {e \in {"NotFound", "SelfReference", "CapacityExceeded", "AlreadyActive", "Cooldown"} :
        \/ e = "NotFound" /\ (a \notin members \/ b \notin members)
        \/ e = "SelfReference" /\ a = b
        \/ e = "CapacityExceeded" /\ (bond_count[a] >= FIELD_MAX_BONDS \/ bond_count[b] >= FIELD_MAX_BONDS)
        \/ e = "AlreadyActive" /\ ActiveRowOf(a, b) # None
        \/ e = "Cooldown" /\ RowOfPair(a, b) = None /\ CooldownActive(a)}

C26_Step ==
    IF result'.op = "form_bond" /\ ~result'.ok
    THEN /\ bonds' = bonds
         /\ bond_count' = bond_count
         /\ node_state' = node_state
         /\ result'.err \in Refusals(result'.nodes[1], result'.nodes[2])
         /\ (result.op = "form_bond" /\ ~result.ok /\ result.nodes = result'.nodes)
               => result'.err = result.err
    ELSE TRUE

\* C26: a refused form_bond inserts no row and changes no bond state, bond
\* count or node state; its error is one of the listed reasons that holds in
\* the state; and the same call made again right after the refusal, on the
\* same state at the same time, is refused with the same error.
C26_RefusalChangesNothing == [][C26_Step]_vars

\* a call refused by the cooldown, the last test before the insertion, on a
\* pair without a row whose nodes are registered, distinct and below capacity
C26_Witness ==
    /\ result.op = "form_bond" /\ ~result.ok /\ result.err = "Cooldown"
    /\ Refusals(result.nodes[1], result.nodes[2]) = {"Cooldown"}
    /\ bond_count[result.nodes[1]] > 0


\* the nodes within d bonds of o in the graph of the first k rows
RECURSIVE BallIn(_, _, _)
BallIn(k, o, d) ==
    IF d = 0 THEN {o}
    ELSE BallIn(k, o, d - 1) \cup
         {n \in members : \E j \in 1..k, m \in BallIn(k, o, d - 1) :
                              {bonds[j].node_a, bonds[j].node_b} = {m, n}}

\* the breadth-first result on the graph of the first k rows: the registered
\* nodes within max_hops of o, each with its distance
SnapshotField(k, o, max_hops) ==
    {<<n, d>> \in members \X (0..max_hops) :
        /\ n \in BallIn(k, o, d)
        /\ d = 0 \/ n \notin BallIn(k, o, d - 1)}

\* the nodes of a returned field with their hops
NodeHops(field) == {<<field.nodes[i].id, field.nodes[i].hops>> : i \in 1..Len(field.nodes)}

\* C27: a get_field call that ran while bonds were formed returns non-negative
\* hops and the nodes and hops of the breadth-first search on one graph that
\* has existed.  (Where rows are only added and never dissolved, the graphs
\* that have existed are those of the first k rows, k up to the number of
\* rows at the return; the graphs during the call are among them.)
C27_OneSnapshot ==
    (result.op = "get_field" /\ result.ok) =>
        /\ \A i \in 1..Len(result.field.nodes) : result.field.nodes[i].hops >= 0
        /\ \E k \in 0..Len(bonds) :
              NodeHops(result.field) = SnapshotField(k, result.origin, result.field.max_hops)


\* C28: after any sequence of form_bond and dissolve_bond calls made one at a
\* time, every member's stored bond_count is the number of ACTIVE rows that
\* have it as an endpoint, and lies in 0..5.
C28_CountMatchesRows ==
    \A n \in AllIds :
        /\ bond_count[n] = ActiveDegree(n)
        /\ bond_count[n] \in 0..FIELD_MAX_BONDS

\* a row of the hub was reactivated and brought the hub back to 5 while another
\* of its rows is INACTIVE and that row's spoke is back at 0
C28_Witness ==
    /\ result.op = "form_bond" /\ result.ok /\ result.reactivated
    /\ bond_count[Hub] = FIELD_MAX_BONDS
    /\ \E k \in 1..Len(bonds) :
          /\ bonds[k].state = BOND_STATE_INACTIVE
          /\ bond_count[SpokeOf(<<bonds[k].node_a, bonds[k].node_b>>)] = 0


\* the ids of the nodes of a returned field
NodeIds(field) == {field.nodes[i].id : i \in 1..Len(field.nodes)}

\* C29: in the result of get_field no unordered pair appears in two edges, and
\* both endpoints of every edge are among the returned nodes.
C29_EdgesClosed ==
    (result.op = "get_field" /\ result.ok) =>
        LET es == result.field.edges
        IN /\ \A i \in 1..Len(es), j \in 1..Len(es) :
                {es[i].source, es[i].target} = {es[j].source, es[j].target} => i = j
           /\ \A i \in 1..Len(es) :
                {es[i].source, es[i].target} \subseteq NodeIds(result.field)


\* the orders in which the rows of the bond table can be returned
RowOrders == Permutations(1..Len(bonds))

\* how many entries of ds have the recipient, quantity, hop and type of e
Copies(ds, e) ==
    Cardinality({i \in 1..Len(ds) : /\ ds[i].recipient = e.recipient
                                    /\ ds[i].amount = e.amount
                                    /\ ds[i].hop = e.hop
                                    /\ ds[i].type = e.type})

\* ds1 and ds2 hold the same entries the same number of times
SameEntries(ds1, ds2) ==
    /\ Len(ds1) = Len(ds2)
    /\ \A i \in 1..Len(ds1) : Copies(ds1, ds1[i]) = Copies(ds2, ds1[i])

\* the result of the last preview had the rows come in the given order
PreviewIn(order) ==
    calculate_propagation_in(order, result.origin, result.calc.energy_input,
                             result.event_type)

\* C30: the entries computed by calculate_propagation do not depend on the
\* order in which the ACTIVE bonds of a node are enumerated: whatever the order
\* of the rows, the result holds the same entries the same number of times
\* and the same totals as the result in row-id order.
C30_OrderIndependent ==
    Previewed =>
        \A order \in RowOrders :
            /\ SameEntries(PreviewIn(order).distributions, result.calc.distributions)
            /\ PreviewIn(order).total_propagated = result.calc.total_propagated
            /\ PreviewIn(order).energy_input = result.calc.energy_input

\* an origin with two ACTIVE bonds of which one peer is paid and the other
\* redirected: another order of the rows swaps the two entries in the list
C30_Witness ==
    /\ Previewed
    /\ ActiveDegree(result.origin) >= 2
    /\ \E order \in RowOrders :
          PreviewIn(order).distributions # result.calc.distributions

====
